---------------------------- MODULE Spec2Model ----------------------------
(***************************************************************************)
(* Wi-Fi DCF / NR-U LBT coexistence engine                                 *)
(* (src/coexistence_simpy/coexistence_simulator.py) on the SimPy kernel.   *)
(*                                                                         *)
(* The program state is the SimPy event heap, the two resources of the     *)
(* medium (tx_lock, tx_queue), the medium's lists and counters, and the    *)
(* attributes and generator positions of every station.  One step of the   *)
(* model is one Environment.step(): the head event of the heap is popped   *)
(* and its callbacks run, which resumes at most one generator up to its    *)
(* next yield.  There is one action per generator segment (the code        *)
(* between two yields) and one per kernel callback.  The random draws      *)
(* (random.randint) are the only nondeterminism of a run.                  *)
(*                                                                         *)
(* Every action is written as a function from the state record S to the    *)
(* set of its successor records, so that the generator code reads top to   *)
(* bottom as in the source.                                                *)
(***************************************************************************)
EXTENDS Integers, Sequences, FiniteSets, TLC

VARIABLES
    cfg,                        \* arguments of simulate_coexistence
    now,                        \* Environment.now (microseconds)
    queue,                      \* Environment._queue, in pop order
    tx_lock,                    \* WirelessMedium.tx_lock (simpy.Resource)
    tx_queue,                   \* every PreemptiveResource made so far; the last is channel.tx_queue
    active_wifi_transmitters,   \* WirelessMedium lists, in insertion order
    wifi_stations_in_backoff,
    active_nru_transmitters,
    nru_nodes_in_backoff,
    chan,                       \* WirelessMedium counters
    data_airtime,               \* data_airtime_WiFi / data_airtime_NR, by station
    control_airtime,            \* control_airtime_WiFi / control_airtime_NR, by station
    sta,                        \* attributes of WiFiStation / NRUBaseStation objects
    proc,                       \* generator positions of the processes of each station
    run,                        \* state of Environment.run and of the statistics step
    hist,                       \* observations of the run (not program state)
    times                       \* a station's Times object and what get_ppdu_frame_time returned

vars == <<cfg, now, queue, tx_lock, tx_queue, active_wifi_transmitters,
          wifi_stations_in_backoff, active_nru_transmitters, nru_nodes_in_backoff,
          chan, data_airtime, control_airtime, sta, proc, run, hist, times>>

-----------------------------------------------------------------------------
(* Program constants *)

MAX_TRANSMISSION_PRIORITY == 100000
t_slot == 9
t_sifs == 16
t_difs == 3 * t_slot + t_sifs
ack_timeout == 45
AckFrameTime == 44              \* Times.get_ack_frame_time
WiFiFrameTime == 5400           \* generate_wifi_frame: frame_time
prioritization_period_us == 16
observation_slot_duration == 9
synchronization_slot_duration == 1000
M == 3
mcot == 6
NRURetransmissionCap == 7       \* NRUBaseStation.sent_failed
data_size == 1472               \* WiFiConfig.data_size
mcs == 7                        \* WiFiConfig.mcs

\* MCS: {index: [data_rate, control_rate]} in bits per microsecond
MCS ==
    [ i \in 0..7 |-> << <<6, 6>>, <<9, 6>>, <<12, 12>>, <<18, 12>>,
                        <<24, 24>>, <<36, 24>>, <<48, 24>>, <<54, 24>> >>[i + 1] ]
URGENT == 0                     \* simpy.core.URGENT
NORMAL == 1                     \* simpy.core.NORMAL

-----------------------------------------------------------------------------
(* Bounds of the model *)

MaxStations == 3                \* n_wifi + n_nru
MaxUntil == 12100               \* latest stop of Environment.run, microseconds
MaxLongUntil == 54400           \* latest stop of the runs of LongRuns, microseconds
MaxPayload == 1500              \* largest payload a Times object is made with, bytes
MaxRuns == 2                    \* --runs of the NR-U sweep

(* Inputs: the configurations the runs are drawn from.  cw = <<min_cw, max_cw>>,
   desync = <<min_sync_slot_desync, max_sync_slot_desync>>; gap is the global
   GAP_MODE_ENABLED that simulate_coexistence derives from nru_mode. *)
WiFiCwChoices == {<<0, 0>>, <<1, 1>>, <<2, 3>>}
NRUCwChoices == {<<0, 0>>, <<1, 1>>, <<2, 3>>}
DesyncChoices == {<<0, 0>>, <<531, 532>>, <<6100, 6100>>}
RetryLimitChoices == {1}
\* the values of nru_mode a run is asked for with: the two modes, one of them
\* in capitals as well, and a word that is no mode
NRUModeChoices == {"rs", "gap", "GAP", "lbt"}
\* backoff_counts = {key: {n_wifi: 0} for key in range(backoff_keys + 1)}
BackoffKeyChoices == {0, 1, 3}

\* str.lower on the mode strings
Lower(nru_mode) == IF nru_mode = "GAP" THEN "gap" ELSE nru_mode

\* The modes changing_number_nodes of the NR-U sweep goes on with: `if
\* nru_mode.lower() == "rs" ... elif nru_mode.lower() == "gap" ... else: raise
\* ValueError`
ModeAccepted(nru_mode) == Lower(nru_mode) \in {"rs", "gap"}

\* GAP_MODE_ENABLED = (nru_mode.lower() == "gap")
GAP_MODE_ENABLED(nru_mode) == Lower(nru_mode) = "gap"

\* prioritization_period_time in wait_back_off and wait_back_off_gap
prioritization_period_time == prioritization_period_us + M * observation_slot_duration

\* The runs in which the first gap of a gNB ends during the ACK timeout of a
\* Wi-Fi collision: two Wi-Fi stations that collide at their first attempt,
\* and two gNBs in gap mode whose first sync slot boundary is one or two
\* microseconds and a prioritization period after the end of the Wi-Fi frames
WindowRuns ==
    LET first == t_difs + WiFiFrameTime + 1 + prioritization_period_time IN
    { [ n_wifi |-> 2, n_nru |-> 2, nru_mode |-> "gap", gap |-> TRUE,
        wifi_cw |-> <<0, 0>>, nru_cw |-> <<0, 0>>,
        desync |-> <<first, first + 1>>, r_limit |-> 1, backoff_keys |-> 0,
        data_size |-> data_size, mcs |-> mcs,
        entry |-> "simulate_coexistence", runs |-> 1 ] }

\* The runs asked of simulate_coexistence: every combination of the choices
\* within the bounds, and the runs of WindowRuns.  simulate_coexistence takes
\* any string for nru_mode: one that is neither rs nor gap makes
\* GAP_MODE_ENABLED false
Configs ==
    { c \in [ n_wifi : 0..MaxStations, n_nru : 0..MaxStations,
              nru_mode : NRUModeChoices, gap : BOOLEAN,
              wifi_cw : WiFiCwChoices, nru_cw : NRUCwChoices,
              desync : DesyncChoices, r_limit : RetryLimitChoices,
              backoff_keys : BackoffKeyChoices,
              data_size : {data_size}, mcs : {mcs},
              entry : {"simulate_coexistence"}, runs : {1} ] :
        /\ c.n_wifi + c.n_nru <= MaxStations
        /\ c.gap = GAP_MODE_ENABLED(c.nru_mode)
        \* the other spellings of the mode: in the runs of one gNB
        /\ c.nru_mode \notin {"rs", "gap"} => (c.n_wifi = 0 /\ c.n_nru = 1)
        \* configuration a run does not read is fixed, so that it is not counted twice
        /\ c.n_nru = 0 => (c.nru_mode = "rs" /\ c.nru_cw = <<0, 0>> /\ c.desync = <<0, 0>>)
        /\ c.n_wifi = 0 => c.wifi_cw = <<0, 0>>
        \* backoff_counts has an entry for every draw of the run, or it is what
        \* the sweep drivers make for Wi-Fi stations and gNBs together
        /\ \/ c.backoff_keys = (IF c.wifi_cw[2] >= c.nru_cw[2]
                                THEN c.wifi_cw[2] ELSE c.nru_cw[2])
           \/ c.backoff_keys = c.wifi_cw[2] /\ c.n_wifi >= 1 /\ c.n_nru >= 1
        \* the window that grows with the retries: in the runs of at most two stations
        /\ c.n_wifi + c.n_nru > 2 => (c.wifi_cw[2] < 2 /\ c.nru_cw[2] < 2)
        \* in the runs of more than three stations nothing is drawn
        /\ c.n_wifi + c.n_nru > 3 =>
               (c.wifi_cw[2] = 0 /\ c.nru_cw[2] = 0 /\ c.desync = <<0, 0>>) }
        \cup WindowRuns

\* The sweeps asked of changing_number_nodes of the NR-U sweep, with
\* start_node_number = end_node_number = 1, min_nru_cw = max_nru_cw = 0 and
\* simulation_time * 1000000 = MaxUntil: no Wi-Fi station, the offsets drawn
\* from 0..1000, backoff_counts with the keys range(max_nru_cw + 1), `runs` runs
\* one after the other (two runs: in rs mode)
DriverRuns ==
    { c \in [ n_wifi : {0}, n_nru : {1}, nru_mode : NRUModeChoices, gap : BOOLEAN,
              wifi_cw : {<<0, 0>>}, nru_cw : {<<0, 0>>},
              desync : {<<0, 1000>>}, r_limit : {1}, backoff_keys : {0},
              data_size : {data_size}, mcs : {mcs},
              entry : {"changing_number_nodes"}, runs : 1..MaxRuns ] :
        /\ c.gap = GAP_MODE_ENABLED(c.nru_mode)
        /\ c.runs > 1 => c.nru_mode \in {"rs", "lbt"} }

\* calculate_backoff_slots finds backoff_counts[back_off][num_wifi_stations] for
\* every back_off that a station of configuration c can draw
PreSized(c) ==
    /\ c.n_wifi >= 1 => c.backoff_keys >= c.wifi_cw[2]
    /\ c.n_nru >= 1 => c.backoff_keys >= c.nru_cw[2]

\* The runs followed to MaxLongUntil: two gNBs in rs mode that draw nothing,
\* so that they collide at every attempt.
LongRuns ==
    { c \in Configs : /\ c.n_wifi = 0 /\ c.n_nru = 2 /\ ~c.gap
                      /\ c.nru_cw = <<0, 0>> /\ c.desync = <<0, 0>> }

\* The configurations the Times objects are made from: those of C for one Wi-Fi
\* station, with every payload up to MaxPayload and every index of MCS
TimesConfigs(C) ==
    { [c EXCEPT !.data_size = payload, !.mcs = i] :
          c \in {d \in C : d.n_wifi = 1 /\ d.n_nru = 0 /\ d.wifi_cw = <<0, 0>>},
          payload \in 0..MaxPayload, i \in DOMAIN MCS }

\* simulation_time * 1000000 is at most Horizon
Horizon(S) == IF S.cfg \in LongRuns THEN MaxLongUntil ELSE MaxUntil

-----------------------------------------------------------------------------
(* The state as one record, so that generator code can be written as a
   composition of state transformers. *)

Cur ==
    [ cfg |-> cfg, now |-> now, queue |-> queue, tx_lock |-> tx_lock,
      tx_queue |-> tx_queue,
      active_wifi_transmitters |-> active_wifi_transmitters,
      wifi_stations_in_backoff |-> wifi_stations_in_backoff,
      active_nru_transmitters |-> active_nru_transmitters,
      nru_nodes_in_backoff |-> nru_nodes_in_backoff,
      chan |-> chan, data_airtime |-> data_airtime,
      control_airtime |-> control_airtime, sta |-> sta, proc |-> proc,
      run |-> run, hist |-> hist, times |-> times ]

Becomes(T) ==
    /\ cfg' = T.cfg
    /\ now' = T.now
    /\ queue' = T.queue
    /\ tx_lock' = T.tx_lock
    /\ tx_queue' = T.tx_queue
    /\ active_wifi_transmitters' = T.active_wifi_transmitters
    /\ wifi_stations_in_backoff' = T.wifi_stations_in_backoff
    /\ active_nru_transmitters' = T.active_nru_transmitters
    /\ nru_nodes_in_backoff' = T.nru_nodes_in_backoff
    /\ chan' = T.chan
    /\ data_airtime' = T.data_airtime
    /\ control_airtime' = T.control_airtime
    /\ sta' = T.sta
    /\ proc' = T.proc
    /\ run' = T.run
    /\ hist' = T.hist
    /\ times' = T.times

\* math.ceil(n / d), d > 0
Ceil(n, d) == -((-n) \div d)

\* Times.__init__; returned holds what get_ppdu_frame_time returned, once called
Times(payload, i) ==
    [ payload |-> payload, mcs |-> i,
      data_rate |-> MCS[i][1], ctr_rate |-> MCS[i][2],
      ofdm_preamble |-> 16, ofdm_signal |-> 4, returned |-> <<>> ]

\* Times.get_ppdu_frame_time without the padding to whole OFDM symbols
get_ppdu_frame_time_NoPadding(self) ==
    LET mac_overhead == 40 * 8
        overhead == 22
        msdu == self.payload * 8
        mac_frame == mac_overhead + msdu
        cpsdu == overhead + mac_frame
    IN  Ceil((self.ofdm_preamble + self.ofdm_signal) * self.data_rate + cpsdu,
             self.data_rate)

\* Times.get_ppdu_frame_time; ppdu_time is the fraction
\* ((ofdm_preamble + ofdm_signal) * data_rate + cpsdu) / data_rate
get_ppdu_frame_time(self) ==
    LET mac_overhead == 40 * 8
        overhead == 22
        msdu == self.payload * 8
        mac_frame == mac_overhead + msdu
        n_data == 4 * self.data_rate
        total_bits == overhead + mac_frame
        symbol_count == Ceil(total_bits, n_data)
        padded_size == symbol_count * n_data
        ppdu_padding == padded_size - total_bits
        cpsdu == overhead + mac_frame + ppdu_padding
    IN  Ceil((self.ofdm_preamble + self.ofdm_signal) * self.data_rate + cpsdu,
             self.data_rate)

\* the stations that were constructed: the keys of the airtime dicts
Stations(S) == DOMAIN S.sta
\* WiFiStation objects are constructed first (simulate_coexistence), gNBs after them
IsWiFi(S, s) == s <= S.cfg.n_wifi
IsNRU(S, s) == s > S.cfg.n_wifi

RemoveFirst(L, x) ==
    IF \E i \in 1..Len(L) : L[i] = x
    THEN LET k == CHOOSE i \in 1..Len(L) : L[i] = x /\ \A j \in 1..(i - 1) : L[j] # x
         IN SubSeq(L, 1, k - 1) \o SubSeq(L, k + 1, Len(L))
    ELSE L

Contains(L, x) == \E i \in 1..Len(L) : L[i] = x

-----------------------------------------------------------------------------
(* SimPy kernel: the event heap *)

\* An event of the heap.  st/proc: the process it belongs to; att: whether the
\* process's _resume is still among its callbacks; gen: the send attempt a
\* tx_queue request or condition belongs to; q: the PreemptiveResource of a
\* Release; val: the value a process returned; err, arg: the exception a process
\* failed with and its argument.
Event(kind, s, p) ==
    [ t |-> 0, pr |-> NORMAL, kind |-> kind, st |-> s, proc |-> p,
      att |-> TRUE, gen |-> 0, q |-> 0, val |-> FALSE, err |-> "none", arg |-> 0 ]

\* heappush with key (time, priority, eid): after every event that is not later
Insert(Q, e) ==
    LET k == Cardinality({ i \in 1..Len(Q) :
                             Q[i].t < e.t \/ (Q[i].t = e.t /\ Q[i].pr <= e.pr) })
    IN SubSeq(Q, 1, k) \o <<e>> \o SubSeq(Q, k + 1, Len(Q))

Schedule(S, delay, priority, e) ==
    [S EXCEPT !.queue = Insert(@, [e EXCEPT !.t = S.now + delay, !.pr = priority])]

\* An exception is raised and nothing catches it where it is raised.  Raised by
\* environment.run or after it, or by a callback that Environment.step calls,
\* it ends the run; raised in a generator, it is what Process._resume receives.
Crash(S, err) == [S EXCEPT !.run.status = "crashed", !.run.error = err]
Crashed(S) == S.run.status = "crashed"

\* Environment.timeout(delay) yielded by process p of station s
Timeout(S, s, p, delay) ==
    IF delay < 0 THEN Crash(S, "ValueError")
    ELSE Schedule(S, delay, NORMAL, Event("timeout", s, p))

\* Process.is_alive
IsAlive(S, s, p) == S.proc[s][p] \notin {"none", "dead"}
SendAlive(S, s, gen) == IsAlive(S, s, "send") /\ S.proc[s].gen = gen

\* Interruption.__init__ for process.interrupt()
Interrupt(S, s, p, gen) ==
    IF ~(IF p = "send" THEN SendAlive(S, s, gen) ELSE IsAlive(S, s, p))
    THEN Crash(S, "RuntimeError")
    ELSE Schedule(S, 0, URGENT, [Event("interrupt", s, p) EXCEPT !.gen = gen])

\* Interruption._interrupt: process._target.callbacks.remove(process._resume)
Detach(S, s, p) ==
    [S EXCEPT !.queue =
        [ i \in 1..Len(@) |->
            IF @[i].st = s /\ @[i].proc = p
               /\ @[i].kind \in {"init", "timeout", "lock_request", "condition"}
            THEN [@[i] EXCEPT !.att = FALSE] ELSE @[i] ]]

\* A generator returns: Process._resume schedules the process event
ProcEnd(S, s, p, val) ==
    Schedule([S EXCEPT !.proc[s][p] = "dead"], 0, NORMAL,
             [Event("process", s, p) EXCEPT !.val = val])

\* Process._resume, `except BaseException`: the generator of process p of
\* station s raised the exception S carries.  The process ends, failed, its
\* event is scheduled with the exception, and the event loop goes on.
Fail(S, s, p) ==
    Schedule([S EXCEPT !.proc[s][p] = "dead", !.run.status = "running",
                       !.run.error = "none", !.run.arg = 0], 0, NORMAL,
             [Event("process", s, p) EXCEPT !.err = S.run.error, !.arg = S.run.arg])

-----------------------------------------------------------------------------
(* SimPy resources *)

EmptyResource == [users |-> <<>>, put_queue |-> <<>>]

\* Resource._do_put under BaseResource._trigger_put: only the head of put_queue
\* is tried (Resource._do_put returns None)
Lock_trigger_put(S) ==
    LET L == S.tx_lock IN
    IF L.put_queue # <<>> /\ Len(L.users) < 1
    THEN LET r == Head(L.put_queue) IN
         Schedule([S EXCEPT !.tx_lock = [users |-> Append(L.users, r),
                                         put_queue |-> Tail(L.put_queue)]],
                  0, NORMAL, Event("lock_request", r.st, r.proc))
    ELSE S

\* tx_lock.request() by process p of station s
Lock_request(S, s, p) ==
    Lock_trigger_put([S EXCEPT !.tx_lock.put_queue = Append(@, [st |-> s, proc |-> p])])

\* mutant: leaving the `with` block cancels the request but keeps the lock
Lock_exit_KeepsLock(S, s, p) ==
    LET r == [st |-> s, proc |-> p]
    IN Schedule([S EXCEPT !.tx_lock.put_queue = RemoveFirst(@, r)],
                0, NORMAL, Event("lock_release", 0, "none"))

\* Request.__exit__ at the end of `with tx_lock.request()`: cancel, then release
Lock_exit(S, s, p) ==
    LET r == [st |-> s, proc |-> p]
        L == S.tx_lock
    IN Schedule([S EXCEPT !.tx_lock = [users |-> RemoveFirst(L.users, r),
                                       put_queue |-> RemoveFirst(L.put_queue, r)]],
                0, NORMAL, Event("lock_release", 0, "none"))

\* mutant: of two requests of one priority and instant the later is the smaller
KeyLess_TieToLater(a, b) == a.priority < b.priority \/ (a.priority = b.priority /\ a.time <= b.time)

\* PriorityRequest.key = (priority, time, not preempt); preempt is always True
KeyLess(a, b) == a.priority < b.priority \/ (a.priority = b.priority /\ a.time < b.time)

\* SortedQueue.append: append, then a stable sort by key
SortedAppend(Q, r) ==
    LET k == Cardinality({ i \in 1..Len(Q) : ~KeyLess(r, Q[i]) })
    IN SubSeq(Q, 1, k) \o <<r>> \o SubSeq(Q, k + 1, Len(Q))

\* mutant: a preempting request is granted next to the user it preempts
Queue_trigger_put_KeepsVictim(S, q) ==
    LET R == S.tx_queue[q] IN
    IF R.put_queue = <<>> THEN S
    ELSE
    LET h == Head(R.put_queue)
        preempt == Len(R.users) >= 1 /\ KeyLess(h, R.users[1])
        victim == R.users[1]
        s1 == IF preempt
              THEN Interrupt([S EXCEPT !.hist.preemption = [by |-> h.st, victim |-> victim.st],
                                       !.hist.preemptions = @ + 1],
                             victim.st, "send", victim.gen)
              ELSE S
    IN IF Crashed(s1) THEN s1
       ELSE IF preempt \/ Len(s1.tx_queue[q].users) < 1
       THEN Schedule([s1 EXCEPT !.tx_queue[q] = [users |-> <<h>> \o R.users,
                                                 put_queue |-> Tail(R.put_queue)]],
                     0, NORMAL,
                     [Event("queue_request", h.st, "send") EXCEPT !.gen = h.gen])
       ELSE s1

\* PreemptiveResource._do_put for the head of put_queue of tx_queue[q]
Queue_trigger_put(S, q) ==
    LET R == S.tx_queue[q] IN
    IF R.put_queue = <<>> THEN S
    ELSE
    LET h == Head(R.put_queue)
        preempt == Len(R.users) >= 1 /\ KeyLess(h, R.users[1])
        victim == R.users[1]
        s1 == IF preempt
              THEN Interrupt([S EXCEPT !.tx_queue[q].users = <<>>,
                                       !.hist.preemption = [by |-> h.st, victim |-> victim.st],
                                       !.hist.preemptions = @ + 1],
                             victim.st, "send", victim.gen)
              ELSE S
    IN IF Crashed(s1) THEN s1
       ELSE IF Len(s1.tx_queue[q].users) < 1
       THEN Schedule([s1 EXCEPT !.tx_queue[q] = [users |-> <<h>>,
                                                 put_queue |-> Tail(R.put_queue)]],
                     0, NORMAL,
                     [Event("queue_request", h.st, "send") EXCEPT !.gen = h.gen])
       ELSE s1

\* channel.tx_queue.request(priority=...) by the send process of station s
Queue_request(S, s, priority) ==
    LET q == Len(S.tx_queue)
        r == [st |-> s, gen |-> S.proc[s].gen, priority |-> priority, time |-> S.now]
    IN Queue_trigger_put([S EXCEPT !.tx_queue[q].put_queue = SortedAppend(@, r)], q)

\* channel.tx_queue.release(res): Resource._do_get on the current tx_queue
Queue_release(S, s) ==
    LET q == Len(S.tx_queue)
        mine(r) == r.st = s /\ r.gen = S.proc[s].gen
        U == S.tx_queue[q].users
    IN Schedule([S EXCEPT !.tx_queue[q].users =
                     IF U # <<>> /\ mine(U[1]) THEN <<>> ELSE U],
                0, NORMAL, [Event("queue_release", 0, "none") EXCEPT !.q = q])

-----------------------------------------------------------------------------
(* Environment.step: which generator segment the head event resumes *)

Min(a, b) == IF a <= b THEN a ELSE b

Steps(S) == S.run.status = "running" /\ S.queue # <<>> /\ Head(S.queue).t < Horizon(S)
Top(S) == Head(S.queue)
\* heappop: the clock moves to the event's time
Pop(S) == [S EXCEPT !.now = Head(S.queue).t, !.queue = Tail(S.queue)]

\* the head event starts process p (Initialize)
Starts(S, p) == Steps(S) /\ Top(S).kind = "init" /\ Top(S).proc = p /\ Top(S).att
\* the head event resumes process p, suspended at position pc, with a value
Resumes(S, kind, p, pc) ==
    /\ Steps(S)
    /\ Top(S).kind = kind /\ Top(S).proc = p /\ Top(S).att
    /\ S.proc[Top(S).st][p] = pc
\* the head event is the termination of child process p, awaited by start_process
Returns(S, p) == Steps(S) /\ Top(S).kind = "process" /\ Top(S).proc = p

\* the head event is that of a failed process: Process._resume throws its
\* exception into the generator that waits for it (event._defused = True), and
\* Environment.step raises it when no callback has defused it
Thrown(S) == [Crash(Pop(S), Top(S).err) EXCEPT !.run.arg = Top(S).arg]

\* Process._resume for the generator that the head event of S resumes
\* (start_process for the event of a child process, else the process of the
\* event), Ts being what its code does from there.  The exception of a failed
\* event is thrown into the generator: start_process, the only one to wait for
\* a process, does not catch it.  A generator that raises fails its process.
Resume(S, Ts) ==
    IF Ts = {} THEN {}
    ELSE LET s == Top(S).st
             p == IF Top(S).kind = "process" THEN "main" ELSE Top(S).proc
         IN IF Top(S).kind = "process" /\ Top(S).err # "none"
            THEN {Fail(Thrown(S), s, p)}
            ELSE { IF Crashed(T) THEN Fail(T, s, p) ELSE T : T \in Ts }

\* env.process(generator): the Initialize event of the new process
Spawn(S, s, p) ==
    Schedule([S EXCEPT !.proc[s][p] = "init"], 0, URGENT, Event("init", s, p))

-----------------------------------------------------------------------------
(* Code shared by WiFiStation and NRUBaseStation (the two classes repeat it) *)

RECURSIVE Pow2(_)
Pow2(n) == IF n <= 0 THEN 1 ELSE 2 * Pow2(n - 1)

\* mutant: the window is not capped at max_cw
UpperLimit_Uncapped(failed_transmissions_in_row, min_cw, max_cw) ==
    Pow2(failed_transmissions_in_row) * (min_cw + 1) - 1

\* calculate_backoff_slots: the upper limit of random.randint(0, upper_limit)
UpperLimit(failed_transmissions_in_row, min_cw, max_cw) ==
    Min(Pow2(failed_transmissions_in_row) * (min_cw + 1) - 1, max_cw)

\* mutant: every station draws from the NR-U contention window
BackoffDraws_SharedWindow(S, s) ==
    0..UpperLimit(S.sta[s].failed_transmissions_in_row, S.cfg.nru_cw[1], S.cfg.nru_cw[2])

\* calculate_backoff_slots: the values of random.randint(0, upper_limit)
BackoffDraws(S, s) ==
    LET cw == IF IsWiFi(S, s) THEN S.cfg.wifi_cw ELSE S.cfg.nru_cw
    IN 0..UpperLimit(S.sta[s].failed_transmissions_in_row, cw[1], cw[2])

\* calculate_backoff_slots: backoff_counts[back_off][num_wifi_stations] += 1,
\* a KeyError when the caller's dict has no such entry
CountDraw(S, back_off) ==
    IF back_off \in DOMAIN S.chan.backoff_counts
    THEN [S EXCEPT !.chan.backoff_counts[back_off] = @ + 1]
    ELSE [Crash(S, "KeyError") EXCEPT !.run.arg = back_off]

\* check_for_collision: total_transmitters
TotalTransmitters(S) ==
    Len(S.active_wifi_transmitters) + Len(S.active_nru_transmitters)

\* mutant: any transmission on the medium counts as a success
NoCollision_AnyTransmitter(S) == TotalTransmitters(S) >= 1

\* check_for_collision: the test that selects sent_completed
NoCollision(S) == TotalTransmitters(S) = 1

\* for station in ...: if station.process and station.process.is_alive: interrupt()
RECURSIVE InterruptEach(_, _)
InterruptEach(S, L) ==
    IF L = <<>> THEN S
    ELSE InterruptEach(IF IsAlive(S, Head(L), "wbo")
                       THEN Interrupt(S, Head(L), "wbo", 0) ELSE S,
                       Tail(L))

\* mutant: only the Wi-Fi stations are interrupted
interrupt_backoff_stations_WiFiOnly(S) ==
    InterruptEach(S, S.wifi_stations_in_backoff)

\* interrupt_backoff_stations (inlined in NRUBaseStation.send_transmission)
interrupt_backoff_stations(S) ==
    InterruptEach(InterruptEach(S, S.wifi_stations_in_backoff), S.nru_nodes_in_backoff)

\* mutant: the lists of active transmitters are not cleared
clear_transmission_state_KeepsLists(S, s) == Queue_release(S, s)

\* clear_transmission_state(res)
clear_transmission_state(S, s) ==
    Queue_release([S EXCEPT !.active_wifi_transmitters = <<>>,
                            !.active_nru_transmitters = <<>>], s)

\* self.channel.tx_queue = simpy.PreemptiveResource(self.env, capacity=1)
NewQueue(S) == [S EXCEPT !.tx_queue = Append(@, EmptyResource)]

\* the observation of one collision check: who checked, what it saw, where from
Observe(S, s, branch) ==
    [S EXCEPT !.hist.check = [st |-> s, total |-> TotalTransmitters(S),
                              ok |-> NoCollision(S), branch |-> branch,
                              member |-> Contains(S.active_wifi_transmitters, s)
                                         \/ Contains(S.active_nru_transmitters, s),
                              at |-> S.now, on_air |-> S.now - S.hist.joined[s],
                              before |-> [succeeded |-> S.sta[s].succeeded,
                                          failed |-> S.sta[s].failed]],
              !.hist.checks = @ + 1]

\* mutant: the prefix is taken off twice when the interrupt comes within it
Remaining_PrefixTwice(back_off_time, waited, prefix, slot) ==
    IF waited <= prefix
    THEN back_off_time - prefix - prefix
    ELSE back_off_time - ((((waited - prefix) \div slot) * slot) + prefix)

\* remaining backoff after an interrupt: the prefix (DIFS or PP) and the whole
\* slots already waited are taken off
Remaining(back_off_time, waited, prefix, slot) ==
    IF waited <= prefix
    THEN back_off_time - prefix
    ELSE back_off_time - ((((waited - prefix) \div slot) * slot) + prefix)

\* res = tx_queue.request(priority=MAX - duration); yield res | env.timeout(0)
Contend(S, s, duration) ==
    LET s1 == Queue_request(S, s, MAX_TRANSMISSION_PRIORITY - duration)
        s2 == Schedule(s1, 0, NORMAL,
                       [Event("timeout0", s, "send") EXCEPT !.gen = S.proc[s].gen])
    IN IF Crashed(s1) THEN s1 ELSE [s2 EXCEPT !.proc[s].send = "cond"]

\* mutant: a preempted station leaves the air at once
Overlap_NoAirTime(S, s, duration) ==
    Timeout([S EXCEPT !.proc[s].send = "pre_air",
                      !.hist.preempted[s] = TRUE], s, "send", 0)

\* except simpy.Interrupt: yield self.env.timeout(duration)
Overlap(S, s, duration) ==
    Timeout([S EXCEPT !.proc[s].send = "pre_air",
                      !.hist.preempted[s] = TRUE], s, "send", duration)

-----------------------------------------------------------------------------
(* WiFiStation *)

\* generate_wifi_frame
generate_wifi_frame(S, s) == [S EXCEPT !.sta[s].number_of_retransmissions = 0]

\* self.process = env.process(self.wait_back_off()); yield self.process
StartBackoff(S, s) == [Spawn(S, s, "wbo") EXCEPT !.proc[s].main = "wait_wbo"]

\* was_sent = yield env.process(self.send_frame()) / send_transmission()
StartSend(S, s) ==
    [Spawn(S, s, "send") EXCEPT !.proc[s].main = "wait_send", !.proc[s].gen = @ + 1,
                                !.proc[s].res_done = FALSE, !.proc[s].cond_trig = FALSE,
                                !.hist.preempted[s] = FALSE]

\* WiFiStation.start_process, up to its first yield
Succ_WiFi_start_process(S) ==
    Resume(S,
    IF Starts(S, "main") /\ IsWiFi(S, Top(S).st)
    THEN {StartBackoff(generate_wifi_frame(Pop(S), Top(S).st), Top(S).st)}
    ELSE {})

\* while self.back_off_time > -1: with tx_lock.request() as req: yield req
WiFi_back_off_loop(S, s) ==
    IF S.sta[s].back_off_time > -1
    THEN [Lock_request(S, s, "wbo") EXCEPT !.proc[s].wbo = "lock"]
    ELSE ProcEnd(S, s, "wbo", TRUE)

\* WiFiStation.wait_back_off, up to its first yield
Succ_WiFi_wait_back_off(S) ==
    Resume(S,
    IF Starts(S, "wbo") /\ IsWiFi(S, Top(S).st)
    THEN LET s == Top(S).st IN
         { LET s1 == CountDraw(Pop(S), b) IN
           IF Crashed(s1) THEN s1
           ELSE WiFi_back_off_loop([s1 EXCEPT !.sta[s].back_off_time = b * t_slot], s) :
             b \in BackoffDraws(S, s) }
    ELSE {})

\* mutant: the countdown is armed inside `with tx_lock.request()`
Succ_WiFi_wait_back_off_locked_HoldsLock(S) ==
    Resume(S,
    IF Resumes(S, "lock_request", "wbo", "lock") /\ IsWiFi(S, Top(S).st)
    THEN LET s == Top(S).st
             s1 == Pop(S)
             s2 == [s1 EXCEPT !.sta[s].back_off_time = @ + t_difs,
                              !.sta[s].first_interrupt = TRUE,
                              !.sta[s].start = s1.now,
                              !.wifi_stations_in_backoff = Append(@, s),
                              !.proc[s].wbo = "backoff"]
         IN {Timeout(s2, s, "wbo", s2.sta[s].back_off_time)}
    ELSE {})

\* wait_back_off after `yield req`: DIFS added, enrolled, yield timeout
Succ_WiFi_wait_back_off_locked(S) ==
    Resume(S,
    IF Resumes(S, "lock_request", "wbo", "lock") /\ IsWiFi(S, Top(S).st)
    THEN LET s == Top(S).st
             s1 == Lock_exit(Pop(S), s, "wbo")
             s2 == [s1 EXCEPT !.sta[s].back_off_time = @ + t_difs,
                              !.sta[s].first_interrupt = TRUE,
                              !.sta[s].start = s1.now,
                              !.wifi_stations_in_backoff = Append(@, s),
                              !.proc[s].wbo = "backoff"]
         IN {Timeout(s2, s, "wbo", s2.sta[s].back_off_time)}
    ELSE {})

\* wait_back_off after the backoff timeout: back_off_time = -1, leaves the list
Succ_WiFi_wait_back_off_waited(S) ==
    Resume(S,
    IF Resumes(S, "timeout", "wbo", "backoff") /\ IsWiFi(S, Top(S).st)
    THEN LET s == Top(S).st
             s1 == [Pop(S) EXCEPT !.sta[s].back_off_time = -1,
                                  !.wifi_stations_in_backoff = RemoveFirst(@, s)]
         IN IF ~Contains(S.wifi_stations_in_backoff, s)
            THEN {Crash(s1, "ValueError")}
            ELSE {WiFi_back_off_loop(s1, s)}
    ELSE {})

\* mutant: the slot under way at the interrupt is kept as waited
WiFi_back_off_handler_PartialSlot(S, s) ==
    LET a == S.sta[s] IN
    IF a.first_interrupt
    THEN [S EXCEPT !.sta[s].back_off_time =
                       IF S.now - a.start <= t_difs THEN a.back_off_time - t_difs
                       ELSE a.back_off_time - (S.now - a.start),
                   !.sta[s].first_interrupt = FALSE]
    ELSE S

\* wait_back_off: except simpy.Interrupt
WiFi_back_off_handler(S, s) ==
    LET a == S.sta[s] IN
    IF a.first_interrupt
    THEN [S EXCEPT !.sta[s].back_off_time =
                       Remaining(a.back_off_time, S.now - a.start, t_difs, t_slot),
                   !.sta[s].first_interrupt = FALSE]
    ELSE S

\* mutant: the wait for tx_lock is outside the try block
Succ_WiFi_wait_back_off_interrupted_LockUncaught(S) ==
    Resume(S,
    IF Steps(S) /\ Top(S).kind = "interrupt" /\ Top(S).proc = "wbo" /\ IsWiFi(S, Top(S).st)
    THEN LET s == Top(S).st
             pc == S.proc[s].wbo
             s0 == Detach(Pop(S), s, "wbo")
         IN IF ~IsAlive(S, s, "wbo") THEN {Pop(S)}
            ELSE IF pc = "init" THEN {Crash(s0, "Interrupt")}
            ELSE IF pc = "lock" THEN {Crash(Lock_exit(s0, s, "wbo"), "Interrupt")}
            ELSE {WiFi_back_off_loop(WiFi_back_off_handler(s0, s), s)}
    ELSE {})

\* an Interruption reaches WiFiStation.wait_back_off
Succ_WiFi_wait_back_off_interrupted(S) ==
    Resume(S,
    IF Steps(S) /\ Top(S).kind = "interrupt" /\ Top(S).proc = "wbo" /\ IsWiFi(S, Top(S).st)
    THEN LET s == Top(S).st
             pc == S.proc[s].wbo
             s0 == Detach(Pop(S), s, "wbo")
             s1 == IF pc = "lock" THEN Lock_exit(s0, s, "wbo") ELSE s0
         IN IF ~IsAlive(S, s, "wbo") THEN {Pop(S)}
            ELSE IF pc = "init" THEN {Crash(s0, "Interrupt")}
            ELSE {WiFi_back_off_loop(WiFi_back_off_handler(s1, s), s)}
    ELSE {})

\* start_process after `yield self.process`
Succ_WiFi_start_process_send(S) ==
    Resume(S,
    IF Returns(S, "wbo") /\ IsWiFi(S, Top(S).st)
    THEN {StartSend(Pop(S), Top(S).st)}
    ELSE {})

\* mutant: the retry limit is not applied
WiFi_sent_failed_NoDrop(S, s) ==
    [S EXCEPT !.sta[s].number_of_retransmissions = @ + 1,
              !.chan.failed_transmissions_WiFi = @ + 1,
              !.sta[s].failed = @ + 1,
              !.sta[s].failed_transmissions_in_row = @ + 1]

\* WiFiStation.sent_failed
WiFi_sent_failed(S, s) ==
    LET s1 == [S EXCEPT !.sta[s].number_of_retransmissions = @ + 1,
                        !.chan.failed_transmissions_WiFi = @ + 1,
                        !.sta[s].failed = @ + 1,
                        !.sta[s].failed_transmissions_in_row = @ + 1]
    IN IF s1.sta[s].number_of_retransmissions > S.cfg.r_limit
       THEN [generate_wifi_frame(s1, s) EXCEPT !.sta[s].failed_transmissions_in_row = 0]
       ELSE s1

\* mutant: a success credits the time since the station joined the medium
WiFi_sent_completed_Elapsed(S, s) ==
    [S EXCEPT !.chan.succeeded_transmissions_WiFi = @ + 1,
              !.sta[s].succeeded = @ + 1,
              !.sta[s].failed_transmissions_in_row = 0,
              !.chan.bytes_sent = @ + S.cfg.data_size,
              !.data_airtime[s] = @ + (S.now - S.sta[s].start)]

\* WiFiStation.sent_completed
WiFi_sent_completed(S, s) ==
    [S EXCEPT !.chan.succeeded_transmissions_WiFi = @ + 1,
              !.sta[s].succeeded = @ + 1,
              !.sta[s].failed_transmissions_in_row = 0,
              !.chan.bytes_sent = @ + S.cfg.data_size,
              !.data_airtime[s] = @ + WiFiFrameTime]

\* WiFiStation.check_for_collision
WiFi_check_for_collision(S, s, branch) ==
    IF NoCollision(S)
    THEN WiFi_sent_completed(Observe(S, s, branch), s)
    ELSE WiFi_sent_failed(Observe(S, s, branch), s)

\* mutant: the station goes on air without joining active_wifi_transmitters
Succ_WiFi_send_frame_NotJoined(S) ==
    Resume(S,
    IF Starts(S, "send") /\ IsWiFi(S, Top(S).st)
    THEN LET s == Top(S).st IN
         {Contend([Pop(S) EXCEPT !.hist.joined[s] = Top(S).t], s, WiFiFrameTime)}
    ELSE {})

\* WiFiStation.send_frame, up to `yield res | self.env.timeout(0)`
Succ_WiFi_send_frame(S) ==
    Resume(S,
    IF Starts(S, "send") /\ IsWiFi(S, Top(S).st)
    THEN LET s == Top(S).st IN
         {Contend([Pop(S) EXCEPT !.active_wifi_transmitters = Append(@, s),
                                 !.hist.joined[s] = Top(S).t],
                  s, WiFiFrameTime)}
    ELSE {})

\* mutant: the deferring stations are interrupted before tx_lock is requested
Succ_WiFi_send_frame_contended_InterruptsFirst(S) ==
    Resume(S,
    IF Resumes(S, "condition", "send", "cond") /\ IsWiFi(S, Top(S).st)
    THEN LET s == Top(S).st IN
         IF S.proc[s].res_done
         THEN {[Lock_request(interrupt_backoff_stations(Pop(S)), s, "send")
                  EXCEPT !.proc[s].send = "lock"]}
         ELSE {Overlap(Pop(S), s, WiFiFrameTime)}
    ELSE {})

\* send_frame after the condition: `if res not in result: raise simpy.Interrupt`
Succ_WiFi_send_frame_contended(S) ==
    Resume(S,
    IF Resumes(S, "condition", "send", "cond") /\ IsWiFi(S, Top(S).st)
    THEN LET s == Top(S).st IN
         IF S.proc[s].res_done
         THEN {[Lock_request(Pop(S), s, "send") EXCEPT !.proc[s].send = "lock"]}
         ELSE {Overlap(Pop(S), s, WiFiFrameTime)}
    ELSE {})

\* send_frame after `yield lock`: interrupts the deferring stations, goes on air
Succ_WiFi_send_frame_locked(S) ==
    Resume(S,
    IF Resumes(S, "lock_request", "send", "lock") /\ IsWiFi(S, Top(S).st)
    THEN LET s == Top(S).st
             s1 == interrupt_backoff_stations(Pop(S))
         IN {Timeout([s1 EXCEPT !.proc[s].send = "air"], s, "send", WiFiFrameTime)}
    ELSE {})

\* mutant: after a collision the station waits the ACK time, not the ACK timeout
Succ_WiFi_send_frame_sent_ShortTimeout(S) ==
    Resume(S,
    IF Resumes(S, "timeout", "send", "air") /\ IsWiFi(S, Top(S).st)
    THEN LET s == Top(S).st
             s1 == [Pop(S) EXCEPT !.wifi_stations_in_backoff = <<>>]
             s2 == WiFi_check_for_collision(s1, s, "lock")
         IN IF NoCollision(s1)
            THEN {Timeout([s2 EXCEPT !.control_airtime[s] = @ + AckFrameTime,
                                     !.proc[s].send = "ack"], s, "send", AckFrameTime)}
            ELSE {Timeout([NewQueue(clear_transmission_state(s2, s))
                             EXCEPT !.proc[s].send = "ackto"], s, "send", AckFrameTime)}
    ELSE {})

\* send_frame after the air time on the lock path
Succ_WiFi_send_frame_sent(S) ==
    Resume(S,
    IF Resumes(S, "timeout", "send", "air") /\ IsWiFi(S, Top(S).st)
    THEN LET s == Top(S).st
             s1 == [Pop(S) EXCEPT !.wifi_stations_in_backoff = <<>>]
             s2 == WiFi_check_for_collision(s1, s, "lock")
         IN IF NoCollision(s1)
            THEN {Timeout([s2 EXCEPT !.control_airtime[s] = @ + AckFrameTime,
                                     !.proc[s].send = "ack"], s, "send", AckFrameTime)}
            ELSE {Timeout([NewQueue(clear_transmission_state(s2, s))
                             EXCEPT !.proc[s].send = "ackto"], s, "send", ack_timeout)}
    ELSE {})

\* send_frame after the ACK wait: clears the medium, releases, returns True
Succ_WiFi_send_frame_acked(S) ==
    Resume(S,
    IF Resumes(S, "timeout", "send", "ack") /\ IsWiFi(S, Top(S).st)
    THEN LET s == Top(S).st IN
         {ProcEnd(Lock_exit(clear_transmission_state(Pop(S), s), s, "send"), s, "send", TRUE)}
    ELSE {})

\* send_frame after the ACK timeout of a collision: returns False
Succ_WiFi_send_frame_timed_out(S) ==
    Resume(S,
    IF Resumes(S, "timeout", "send", "ackto") /\ IsWiFi(S, Top(S).st)
    THEN LET s == Top(S).st IN
         {ProcEnd(Lock_exit(Pop(S), s, "send"), s, "send", FALSE)}
    ELSE {})

\* send_frame after the air time of the preemption branch
Succ_WiFi_send_frame_overlapped(S) ==
    Resume(S,
    IF Resumes(S, "timeout", "send", "pre_air") /\ IsWiFi(S, Top(S).st)
    THEN LET s == Top(S).st
             s1 == WiFi_check_for_collision(Pop(S), s, "preempted")
         IN IF NoCollision(Pop(S))
            THEN {Timeout([s1 EXCEPT !.proc[s].send = "pre_ack"], s, "send", AckFrameTime)}
            ELSE {Timeout([s1 EXCEPT !.proc[s].send = "pre_ackto"], s, "send", ack_timeout)}
    ELSE {})

\* send_frame: `return was_sent` at the end of the preemption branch
Succ_WiFi_send_frame_overlap_end(S) ==
    Resume(S,
    IF /\ Steps(S) /\ Top(S).kind = "timeout" /\ Top(S).proc = "send" /\ Top(S).att
       /\ IsWiFi(S, Top(S).st)
       /\ S.proc[Top(S).st].send \in {"pre_ack", "pre_ackto"}
    THEN LET s == Top(S).st IN
         {ProcEnd(Pop(S), s, "send", S.proc[s].send = "pre_ack")}
    ELSE {})

\* start_process after `was_sent = yield ...`: a new frame after a success
Succ_WiFi_start_process_next(S) ==
    Resume(S,
    IF Returns(S, "send") /\ IsWiFi(S, Top(S).st)
    THEN LET s == Top(S).st IN
         IF Top(S).val
         THEN {StartBackoff(generate_wifi_frame(Pop(S), s), s)}
         ELSE {StartBackoff(Pop(S), s)}
    ELSE {})

-----------------------------------------------------------------------------
(* NRUBaseStation *)

\* create_nru_transmission: transmission_time
transmission_time == mcot * 1000

\* NRUBaseStation.start_process, up to its first yield
Succ_NRU_start_process(S) ==
    Resume(S,
    IF Starts(S, "main") /\ IsNRU(S, Top(S).st)
    THEN {StartBackoff(Pop(S), Top(S).st)}
    ELSE {})

\* NRUBaseStation.sync_slot_counter, up to its first yield
Succ_NRU_sync_slot_counter(S) ==
    Resume(S,
    IF Starts(S, "sync")
    THEN LET s == Top(S).st IN
         { Timeout([Pop(S) EXCEPT !.sta[s].desync = d,
                                  !.sta[s].next_sync_slot_boundry = d,
                                  !.proc[s].sync = "tick"], s, "sync", d) :
             d \in S.cfg.desync[1]..S.cfg.desync[2] }
    ELSE {})

\* mutant: the boundary is moved on only after the wait
Succ_NRU_sync_slot_boundary_Late(S) ==
    Resume(S,
    IF Resumes(S, "timeout", "sync", "tick")
    THEN LET s == Top(S).st IN
         {Timeout([Pop(S) EXCEPT !.sta[s].next_sync_slot_boundry =
                                     IF @ = S.sta[s].desync THEN @
                                     ELSE @ + synchronization_slot_duration],
                  s, "sync", synchronization_slot_duration)}
    ELSE {})

\* sync_slot_counter: one turn of `while True`
Succ_NRU_sync_slot_boundary(S) ==
    Resume(S,
    IF Resumes(S, "timeout", "sync", "tick")
    THEN LET s == Top(S).st IN
         {Timeout([Pop(S) EXCEPT !.sta[s].next_sync_slot_boundry =
                                     @ + synchronization_slot_duration],
                  s, "sync", synchronization_slot_duration)}
    ELSE {})

\* while self.back_off_time > -1: with tx_lock.request() as req: yield req
NRU_back_off_loop(S, s) ==
    IF S.sta[s].back_off_time > -1
    THEN [Lock_request(S, s, "wbo") EXCEPT !.proc[s].wbo = "lock"]
    ELSE ProcEnd(S, s, "wbo", TRUE)

\* NRUBaseStation.wait_back_off (rs mode), up to its first yield
Succ_NRU_wait_back_off(S) ==
    Resume(S,
    IF Starts(S, "wbo") /\ IsNRU(S, Top(S).st) /\ ~S.cfg.gap
    THEN LET s == Top(S).st IN
         { LET s1 == CountDraw([Pop(S) EXCEPT !.proc[s].start_bound = FALSE], b) IN
           IF Crashed(s1) THEN s1
           ELSE NRU_back_off_loop([s1 EXCEPT !.sta[s].back_off_time =
                                                 b * observation_slot_duration], s) :
             b \in BackoffDraws(S, s) }
    ELSE {})

\* wait_back_off after `yield req`: PP added, enrolled, yield timeout
Succ_NRU_wait_back_off_locked(S) ==
    Resume(S,
    IF Resumes(S, "lock_request", "wbo", "lock") /\ IsNRU(S, Top(S).st) /\ ~S.cfg.gap
    THEN LET s == Top(S).st
             s1 == Lock_exit(Pop(S), s, "wbo")
             s2 == [s1 EXCEPT !.sta[s].first_interrupt = TRUE,
                              !.sta[s].back_off_time = @ + prioritization_period_time,
                              !.sta[s].start = s1.now,
                              !.proc[s].start_bound = TRUE,
                              !.nru_nodes_in_backoff = Append(@, s),
                              !.proc[s].wbo = "backoff"]
         IN {Timeout(s2, s, "wbo", s2.sta[s].back_off_time)}
    ELSE {})

\* wait_back_off / wait_back_off_gap after the backoff timeout
Succ_NRU_wait_back_off_waited(S) ==
    Resume(S,
    IF Resumes(S, "timeout", "wbo", "backoff") /\ IsNRU(S, Top(S).st)
    THEN LET s == Top(S).st
             s1 == [Pop(S) EXCEPT !.sta[s].back_off_time = -1,
                                  !.sta[s].waiting_backoff =
                                      IF S.cfg.gap THEN FALSE ELSE @,
                                  !.nru_nodes_in_backoff = RemoveFirst(@, s)]
         IN IF ~Contains(S.nru_nodes_in_backoff, s)
            THEN {Crash(s1, "ValueError")}
            ELSE {NRU_back_off_loop(s1, s)}
    ELSE {})

\* mutant: the prioritization period stays in the remaining backoff
NRU_back_off_handler_KeepsPP(S, s) ==
    LET a == S.sta[s] IN
    IF a.first_interrupt
    THEN IF ~S.proc[s].start_bound THEN Crash(S, "UnboundLocalError")
         ELSE [S EXCEPT !.sta[s].back_off_time =
                            Remaining(a.back_off_time, S.now - a.start,
                                      prioritization_period_time,
                                      observation_slot_duration)
                            + prioritization_period_time,
                        !.sta[s].first_interrupt = FALSE]
    ELSE S

\* wait_back_off (rs mode): except simpy.Interrupt; `start` is a local of the
\* generator, unbound until the first countdown is armed
NRU_back_off_handler(S, s) ==
    LET a == S.sta[s] IN
    IF a.first_interrupt
    THEN IF ~S.proc[s].start_bound THEN Crash(S, "UnboundLocalError")
         ELSE [S EXCEPT !.sta[s].back_off_time =
                            Remaining(a.back_off_time, S.now - a.start,
                                      prioritization_period_time,
                                      observation_slot_duration),
                        !.sta[s].first_interrupt = FALSE]
    ELSE S

\* mutant: the prioritization period is not put back
NRU_gap_handler_DropsPP(S, s) ==
    LET a == S.sta[s] IN
    IF a.first_interrupt /\ a.waiting_backoff
    THEN [S EXCEPT !.sta[s].back_off_time =
                       Remaining(a.back_off_time, S.now - a.start,
                                 prioritization_period_time,
                                 observation_slot_duration),
                   !.sta[s].first_interrupt = FALSE,
                   !.sta[s].waiting_backoff = FALSE]
    ELSE S

\* wait_back_off_gap: except simpy.Interrupt
NRU_gap_handler(S, s) ==
    LET a == S.sta[s] IN
    IF a.first_interrupt /\ a.waiting_backoff
    THEN [S EXCEPT !.sta[s].back_off_time =
                       Remaining(a.back_off_time, S.now - a.start,
                                 prioritization_period_time,
                                 observation_slot_duration)
                       + prioritization_period_time,
                   !.sta[s].first_interrupt = FALSE,
                   !.sta[s].waiting_backoff = FALSE]
    ELSE S

\* mutant: the handlers run whether or not a countdown was armed
Succ_NRU_wait_back_off_interrupted_Unguarded(S) ==
    Resume(S,
    IF Steps(S) /\ Top(S).kind = "interrupt" /\ Top(S).proc = "wbo" /\ IsNRU(S, Top(S).st)
    THEN LET s == Top(S).st
             pc == S.proc[s].wbo
             s0 == Detach(Pop(S), s, "wbo")
             s1 == IF pc \in {"lock", "lock2"} THEN Lock_exit(s0, s, "wbo") ELSE s0
             armed == [s1 EXCEPT !.sta[s].first_interrupt = TRUE,
                                 !.sta[s].waiting_backoff = TRUE]
             s2 == IF S.cfg.gap THEN NRU_gap_handler(armed, s)
                   ELSE NRU_back_off_handler(armed, s)
         IN IF ~IsAlive(S, s, "wbo") THEN {Pop(S)}
            ELSE IF pc = "init" THEN {Crash(s0, "Interrupt")}
            ELSE IF Crashed(s2) THEN {s2}
            ELSE {NRU_back_off_loop(s2, s)}
    ELSE {})

\* an Interruption reaches NRUBaseStation.wait_back_off or wait_back_off_gap
Succ_NRU_wait_back_off_interrupted(S) ==
    Resume(S,
    IF Steps(S) /\ Top(S).kind = "interrupt" /\ Top(S).proc = "wbo" /\ IsNRU(S, Top(S).st)
    THEN LET s == Top(S).st
             pc == S.proc[s].wbo
             s0 == Detach(Pop(S), s, "wbo")
             s1 == IF pc \in {"lock", "lock2"} THEN Lock_exit(s0, s, "wbo") ELSE s0
             s2 == IF S.cfg.gap THEN NRU_gap_handler(s1, s) ELSE NRU_back_off_handler(s1, s)
         IN IF ~IsAlive(S, s, "wbo") THEN {Pop(S)}
            ELSE IF pc = "init" THEN {Crash(s0, "Interrupt")}
            ELSE IF Crashed(s2) THEN {s2}
            ELSE {NRU_back_off_loop(s2, s)}
    ELSE {})

\* NRUBaseStation.wait_back_off_gap, up to its first yield
Succ_NRU_wait_back_off_gap(S) ==
    Resume(S,
    IF Starts(S, "wbo") /\ IsNRU(S, Top(S).st) /\ S.cfg.gap
    THEN LET s == Top(S).st IN
         { LET s1 == CountDraw(Pop(S), b) IN
           IF Crashed(s1) THEN s1
           ELSE NRU_back_off_loop([s1 EXCEPT !.sta[s].back_off_time =
                                                 b * observation_slot_duration
                                                 + prioritization_period_time], s) :
             b \in BackoffDraws(S, s) }
    ELSE {})

\* mutant: the loop stops one sync slot before the backoff fits
RECURSIVE NextGapBoundary_Early(_, _)
NextGapBoundary_Early(back_off_time, time_to_next_sync_slot) ==
    IF back_off_time > time_to_next_sync_slot + synchronization_slot_duration - 1
    THEN NextGapBoundary_Early(back_off_time,
                                   time_to_next_sync_slot + synchronization_slot_duration)
    ELSE time_to_next_sync_slot

\* while self.back_off_time >= self.time_to_next_sync_slot: += sync slot
RECURSIVE NextGapBoundary(_, _)
NextGapBoundary(back_off_time, time_to_next_sync_slot) ==
    IF back_off_time >= time_to_next_sync_slot
    THEN NextGapBoundary(back_off_time,
                         time_to_next_sync_slot + synchronization_slot_duration)
    ELSE time_to_next_sync_slot

\* wait_back_off_gap after `yield req`: waits for the gap before the countdown
Succ_NRU_wait_back_off_gap_locked(S) ==
    Resume(S,
    IF Resumes(S, "lock_request", "wbo", "lock") /\ IsNRU(S, Top(S).st) /\ S.cfg.gap
    THEN LET s == Top(S).st
             s1 == Lock_exit(Pop(S), s, "wbo")
             ttn == NextGapBoundary(s1.sta[s].back_off_time,
                                    s1.sta[s].next_sync_slot_boundry - s1.now)
             gap_time == ttn - s1.sta[s].back_off_time
         IN {Timeout([s1 EXCEPT !.sta[s].time_to_next_sync_slot = ttn,
                                !.proc[s].wbo = "gap"], s, "wbo", gap_time)}
    ELSE {})

\* mutant: the countdown starts whether or not the channel is busy
Succ_NRU_wait_back_off_gap_waited_IgnoresBusy(S) ==
    Resume(S,
    IF Resumes(S, "timeout", "wbo", "gap") /\ IsNRU(S, Top(S).st)
    THEN LET s == Top(S).st
             s1 == [Pop(S) EXCEPT !.sta[s].first_interrupt = TRUE,
                                  !.sta[s].start = Top(S).t]
         IN {Timeout([s1 EXCEPT !.nru_nodes_in_backoff = Append(@, s),
                                !.sta[s].waiting_backoff = TRUE,
                                !.proc[s].wbo = "backoff"],
                     s, "wbo", s1.sta[s].back_off_time)}
    ELSE {})

\* wait_back_off_gap after the gap: channel busy -> wait for tx_lock, else count down
Succ_NRU_wait_back_off_gap_waited(S) ==
    Resume(S,
    IF Resumes(S, "timeout", "wbo", "gap") /\ IsNRU(S, Top(S).st)
    THEN LET s == Top(S).st
             s1 == [Pop(S) EXCEPT !.sta[s].first_interrupt = TRUE,
                                  !.sta[s].start = Top(S).t]
         IN IF TotalTransmitters(S) > 0
            THEN {[Lock_request(s1, s, "wbo") EXCEPT !.proc[s].wbo = "lock2"]}
            ELSE {Timeout([s1 EXCEPT !.nru_nodes_in_backoff = Append(@, s),
                                     !.sta[s].waiting_backoff = TRUE,
                                     !.proc[s].wbo = "backoff"],
                          s, "wbo", s1.sta[s].back_off_time)}
    ELSE {})

\* wait_back_off_gap after the wait for an idle channel: back to the loop head
Succ_NRU_wait_back_off_gap_idle(S) ==
    Resume(S,
    IF Resumes(S, "lock_request", "wbo", "lock2") /\ IsNRU(S, Top(S).st)
    THEN LET s == Top(S).st IN
         {NRU_back_off_loop(Lock_exit(Pop(S), s, "wbo"), s)}
    ELSE {})

\* start_process after `yield self.process`
Succ_NRU_start_process_send(S) ==
    Resume(S,
    IF Returns(S, "wbo") /\ IsNRU(S, Top(S).st)
    THEN {StartSend(Pop(S), Top(S).st)}
    ELSE {})

\* start_process after `was_sent = yield ...`
Succ_NRU_start_process_next(S) ==
    Resume(S,
    IF Returns(S, "send") /\ IsNRU(S, Top(S).st)
    THEN {StartBackoff(Pop(S), Top(S).st)}
    ELSE {})

\* mutant: the reservation signal is computed in gap mode too
ReservationSignalTime_AnyMode(S, s) == S.sta[s].next_sync_slot_boundry - S.now

\* create_nru_transmission: rs_time
ReservationSignalTime(S, s) ==
    IF S.cfg.gap THEN 0 ELSE S.sta[s].next_sync_slot_boundry - S.now

\* mutant: the data time is the whole transmission time
create_nru_transmission_FullAirtime(S, s) ==
    [S EXCEPT !.sta[s].rs_time = ReservationSignalTime(S, s),
              !.sta[s].airtime = transmission_time,
              !.sta[s].number_of_retransmissions = 0,
              !.sta[s].start_time_us = S.now]

\* create_nru_transmission
create_nru_transmission(S, s) ==
    [S EXCEPT !.sta[s].rs_time = ReservationSignalTime(S, s),
              !.sta[s].airtime = transmission_time - ReservationSignalTime(S, s),
              !.sta[s].number_of_retransmissions = 0,
              !.sta[s].start_time_us = S.now]

\* NRUBaseStation.sent_failed
NRU_sent_failed(S, s) ==
    LET s1 == [S EXCEPT !.sta[s].number_of_retransmissions = @ + 1,
                        !.chan.failed_transmissions_NR = @ + 1,
                        !.sta[s].failed = @ + 1,
                        !.sta[s].failed_transmissions_in_row = @ + 1]
    IN IF s1.sta[s].number_of_retransmissions > NRURetransmissionCap
       THEN [s1 EXCEPT !.sta[s].failed_transmissions_in_row = 0]
       ELSE s1

\* NRUBaseStation.sent_completed
NRU_sent_completed(S, s) ==
    [S EXCEPT !.chan.succeeded_transmissions_NR = @ + 1,
              !.sta[s].succeeded = @ + 1,
              !.sta[s].failed_transmissions_in_row = 0]

\* NRUBaseStation.check_for_collision
NRU_check_for_collision(S, s, branch) ==
    IF NoCollision(S)
    THEN NRU_sent_completed(Observe(S, s, branch), s)
    ELSE NRU_sent_failed(Observe(S, s, branch), s)

\* NRUBaseStation.send_transmission, up to `yield res | self.env.timeout(0)`
Succ_NRU_send_transmission(S) ==
    Resume(S,
    IF Starts(S, "send") /\ IsNRU(S, Top(S).st)
    THEN LET s == Top(S).st
             s1 == [Pop(S) EXCEPT !.active_nru_transmitters = Append(@, s),
                                  !.hist.joined[s] = Top(S).t]
         IN {Contend(create_nru_transmission(s1, s), s, transmission_time)}
    ELSE {})

\* send_transmission after the condition
Succ_NRU_send_transmission_contended(S) ==
    Resume(S,
    IF Resumes(S, "condition", "send", "cond") /\ IsNRU(S, Top(S).st)
    THEN LET s == Top(S).st IN
         IF S.proc[s].res_done
         THEN {[Lock_request(Pop(S), s, "send") EXCEPT !.proc[s].send = "lock"]}
         ELSE {Overlap(Pop(S), s, transmission_time)}
    ELSE {})

\* send_transmission after `yield lock`
Succ_NRU_send_transmission_locked(S) ==
    Resume(S,
    IF Resumes(S, "lock_request", "send", "lock") /\ IsNRU(S, Top(S).st)
    THEN LET s == Top(S).st
             s1 == interrupt_backoff_stations(Pop(S))
         IN {Timeout([s1 EXCEPT !.proc[s].send = "air"], s, "send", transmission_time)}
    ELSE {})

\* mutant: tx_queue is not replaced after a collision
Succ_NRU_send_transmission_sent_KeepsQueue(S) ==
    Resume(S,
    IF Resumes(S, "timeout", "send", "air") /\ IsNRU(S, Top(S).st)
    THEN LET s == Top(S).st
             s1 == [Pop(S) EXCEPT !.nru_nodes_in_backoff = <<>>]
             s2 == NRU_check_for_collision(s1, s, "lock")
             s3 == [s2 EXCEPT !.control_airtime[s] = @ + s2.sta[s].rs_time,
                              !.data_airtime[s] = @ + s2.sta[s].airtime]
         IN IF NoCollision(s1)
            THEN {ProcEnd(Lock_exit(clear_transmission_state(s3, s), s, "send"),
                          s, "send", TRUE)}
            ELSE {ProcEnd(Lock_exit(clear_transmission_state(s2, s), s, "send"),
                          s, "send", FALSE)}
    ELSE {})

\* send_transmission after the air time on the lock path, to its return
Succ_NRU_send_transmission_sent(S) ==
    Resume(S,
    IF Resumes(S, "timeout", "send", "air") /\ IsNRU(S, Top(S).st)
    THEN LET s == Top(S).st
             s1 == [Pop(S) EXCEPT !.nru_nodes_in_backoff = <<>>]
             s2 == NRU_check_for_collision(s1, s, "lock")
             s3 == [s2 EXCEPT !.control_airtime[s] = @ + s2.sta[s].rs_time,
                              !.data_airtime[s] = @ + s2.sta[s].airtime]
         IN IF NoCollision(s1)
            THEN {ProcEnd(Lock_exit(clear_transmission_state(s3, s), s, "send"),
                          s, "send", TRUE)}
            ELSE {ProcEnd(Lock_exit(NewQueue(clear_transmission_state(s2, s)), s, "send"),
                          s, "send", FALSE)}
    ELSE {})

\* mutant: the preemption branch returns without its collision check
Succ_NRU_send_transmission_overlapped_NoCheck(S) ==
    Resume(S,
    IF Resumes(S, "timeout", "send", "pre_air") /\ IsNRU(S, Top(S).st)
    THEN LET s == Top(S).st IN
         {ProcEnd(Pop(S), s, "send", NoCollision(Pop(S)))}
    ELSE {})

\* send_transmission after the air time of the preemption branch
Succ_NRU_send_transmission_overlapped(S) ==
    Resume(S,
    IF Resumes(S, "timeout", "send", "pre_air") /\ IsNRU(S, Top(S).st)
    THEN LET s == Top(S).st IN
         {ProcEnd(NRU_check_for_collision(Pop(S), s, "preempted"), s, "send",
                  NoCollision(Pop(S)))}
    ELSE {})

\* the air time a station waits in the preemption branch
Duration(S, s) == IF IsWiFi(S, s) THEN WiFiFrameTime ELSE transmission_time

\* a Preempted interrupt reaches send_frame / send_transmission: inside `try`
\* it is caught (leaving `with tx_lock.request()` on the way), outside it is not
Succ_send_preempted(S) ==
    Resume(S,
    IF Steps(S) /\ Top(S).kind = "interrupt" /\ Top(S).proc = "send"
    THEN LET s == Top(S).st
             pc == S.proc[s].send
             s0 == Detach(Pop(S), s, "send")
             s1 == IF pc \in {"lock", "air", "ack", "ackto"}
                   THEN Lock_exit(s0, s, "send") ELSE s0
         IN IF ~SendAlive(S, s, Top(S).gen) THEN {Pop(S)}
            ELSE IF pc \in {"cond", "lock", "air", "ack", "ackto"}
            THEN {Overlap(s1, s, Duration(S, s))}
            ELSE {Crash(s0, "Interrupt")}
    ELSE {})

-----------------------------------------------------------------------------
(* Kernel callbacks that resume no generator *)

\* Condition._check (the callback of `res | timeout(0)` on both events): the
\* first of the two to be processed triggers the condition
ConditionCheck(S, s) ==
    IF S.proc[s].cond_trig THEN S
    ELSE Schedule([S EXCEPT !.proc[s].cond_trig = TRUE], 0, NORMAL,
                  [Event("condition", s, "send") EXCEPT
                      !.att = (S.proc[s].send = "cond"), !.gen = S.proc[s].gen])

\* a granted tx_queue request is processed: from now on `res in result`
Succ_queue_request_processed(S) ==
    IF Steps(S) /\ Top(S).kind = "queue_request"
    THEN LET s == Top(S).st IN
         IF Top(S).gen = S.proc[s].gen
         THEN {ConditionCheck([Pop(S) EXCEPT !.proc[s].res_done = TRUE], s)}
         ELSE {Pop(S)}
    ELSE {}

\* env.timeout(0) of the condition is processed
Succ_timeout0_processed(S) ==
    IF Steps(S) /\ Top(S).kind = "timeout0"
    THEN LET s == Top(S).st IN
         IF Top(S).gen = S.proc[s].gen THEN {ConditionCheck(Pop(S), s)} ELSE {Pop(S)}
    ELSE {}

\* a Release of tx_lock is processed: BaseResource._trigger_put
Succ_lock_release_processed(S) ==
    IF Steps(S) /\ Top(S).kind = "lock_release"
    THEN {Lock_trigger_put(Pop(S))}
    ELSE {}

\* a Release of a PreemptiveResource is processed: BaseResource._trigger_put
Succ_queue_release_processed(S) ==
    IF Steps(S) /\ Top(S).kind = "queue_release"
    THEN {Queue_trigger_put(Pop(S), Top(S).q)}
    ELSE {}

\* mutant: an event may lose its callback whether or not its process was interrupted
Succ_detached_processed_Any(S) ==
    IF /\ Steps(S)
       /\ \/ Top(S).kind \in {"init", "timeout", "lock_request", "condition"}
          \/ Top(S).kind = "process" /\ Top(S).proc \in {"main", "sync"}
    THEN {IF Top(S).err # "none" THEN Thrown(S) ELSE Pop(S)}
    ELSE {}

\* Environment.step for an event that has no callback: one whose process was
\* interrupted away from it, or the event of start_process or sync_slot_counter,
\* which no process waits for.  The event of a failed process, not defused,
\* raises its exception out of environment.run.
Succ_detached_processed(S) ==
    IF /\ Steps(S)
       /\ \/ Top(S).kind \in {"init", "timeout", "lock_request", "condition"} /\ ~Top(S).att
          \/ Top(S).kind = "process" /\ Top(S).proc \in {"main", "sync"}
    THEN {IF Top(S).err # "none" THEN Thrown(S) ELSE Pop(S)}
    ELSE {}

-----------------------------------------------------------------------------
(* simulate_coexistence: Environment.run(until) returns, the statistics step *)

RECURSIVE Sum(_, _)
Sum(f, D) == IF D = {} THEN 0
             ELSE LET x == CHOOSE y \in D : TRUE IN f[x] + Sum(f, D \ {x})

WiFiStations(S) == { s \in Stations(S) : IsWiFi(S, s) }
NRUStations(S) == { s \in Stations(S) : IsNRU(S, s) }

\* channel_occupancy_time_* and channel_efficiency_* (sums over the stations)
Occupancy(S, D) == Sum(S.data_airtime, D) + Sum(S.control_airtime, D)
Efficiency(S, D) == Sum(S.data_airtime, D)

\* The sign of float(p / q) - p / q for 0 < p < q, where float rounds to the
\* nearest double (53 significant bits, ties to the even mantissa): r / q is
\* what is left of the quotient after `bits` significant bits, the last of
\* which is `odd`
RECURSIVE DoubleError(_, _, _, _)
DoubleError(r, q, bits, odd) ==
    IF r = 0 THEN 0
    ELSE IF bits = 53
    THEN (IF 2 * r > q \/ (2 * r = q /\ odd) THEN 1 ELSE -1)
    ELSE IF 2 * r >= q THEN DoubleError(2 * r - q, q, bits + 1, TRUE)
    ELSE DoubleError(2 * r, q, IF bits > 0 THEN bits + 1 ELSE 0, FALSE)

\* "{:.4f}".format(failed / (failed + succeeded)), in ten-thousandths: the
\* double nearest to the quotient, rounded to four decimals, a double that lies
\* exactly half way going to the even neighbour; the integer 0 when the
\* technology is absent or made no attempt
PColl(n, failed, succeeded) ==
    IF n > 0 /\ failed + succeeded > 0
    THEN LET total == failed + succeeded
             down == (10000 * failed) \div total
             left == 2 * ((10000 * failed) % total)
             e == DoubleError(failed % total, total, 0, FALSE)
         IN [formatted |-> TRUE,
             v |-> IF left < total THEN down
                   ELSE IF left > total THEN down + 1
                   ELSE IF e > 0 THEN down + 1
                   ELSE IF e < 0 THEN down
                   ELSE IF down % 2 = 0 THEN down ELSE down + 1]
    ELSE [formatted |-> FALSE, v |-> 0]

\* the row written to the CSV file; the normalized values are kept as
\* numerators over `time` (run.until2 / 2), fairness as num / den
Results(S) ==
    LET w == Occupancy(S, WiFiStations(S))
        n == Occupancy(S, NRUStations(S))
    IN [ wifi_occupancy |-> w,
         wifi_efficiency |-> Efficiency(S, WiFiStations(S)),
         wifi_collision |-> PColl(S.cfg.n_wifi, S.chan.failed_transmissions_WiFi,
                                  S.chan.succeeded_transmissions_WiFi),
         nru_occupancy |-> n,
         nru_efficiency |-> Efficiency(S, NRUStations(S)),
         nru_collision |-> PColl(S.cfg.n_nru, S.chan.failed_transmissions_NR,
                                 S.chan.succeeded_transmissions_NR),
         total_occupancy |-> w + n,
         total_efficiency |-> Efficiency(S, Stations(S)),
         fairness_num |-> (w + n) * (w + n),
         fairness_den |-> 2 * (w * w + n * n) ]

-----------------------------------------------------------------------------
(* The state after the constructors of simulate_coexistence have run *)

\* WiFiStation.__init__ / NRUBaseStation.__init__ (one shape for both classes)
NewStation ==
    [ number_of_retransmissions |-> 0, failed_transmissions_in_row |-> 0,
      succeeded |-> 0, failed |-> 0, first_interrupt |-> FALSE,
      back_off_time |-> 0, start |-> 0, waiting_backoff |-> FALSE,
      desync |-> 0, next_sync_slot_boundry |-> 0, time_to_next_sync_slot |-> 0,
      rs_time |-> 0, airtime |-> 0, start_time_us |-> 0 ]

\* the generators of a station: start_process (main), wait_back_off[_gap] (wbo),
\* send_frame / send_transmission (send), sync_slot_counter (sync)
NewProcesses(nru) ==
    [ main |-> "init", wbo |-> "none", send |-> "none",
      sync |-> IF nru THEN "init" ELSE "none",
      gen |-> 0, res_done |-> FALSE, cond_trig |-> FALSE, start_bound |-> FALSE ]

\* env.process(...) in the constructors: the Initialize events, in creation order
RECURSIVE InitialQueue(_, _)
InitialQueue(c, s) ==
    IF s > c.n_wifi + c.n_nru THEN <<>>
    ELSE (IF s <= c.n_wifi
          THEN <<[Event("init", s, "main") EXCEPT !.pr = URGENT]>>
          ELSE <<[Event("init", s, "main") EXCEPT !.pr = URGENT],
                 [Event("init", s, "sync") EXCEPT !.pr = URGENT]>>)
         \o InitialQueue(c, s + 1)

NoCheck == [ st |-> 0, total |-> 0, ok |-> FALSE, branch |-> "none", member |-> FALSE,
             at |-> 0, on_air |-> 0, before |-> [succeeded |-> 0, failed |-> 0] ]

NoResults ==
    [ wifi_occupancy |-> 0, wifi_efficiency |-> 0,
      wifi_collision |-> [formatted |-> FALSE, v |-> 0],
      nru_occupancy |-> 0, nru_efficiency |-> 0,
      nru_collision |-> [formatted |-> FALSE, v |-> 0],
      total_occupancy |-> 0, total_efficiency |-> 0,
      fairness_num |-> 0, fairness_den |-> 0 ]

InitialState(c) ==
    LET N == 1..(c.n_wifi + c.n_nru) IN
    [ cfg |-> c, now |-> 0, queue |-> InitialQueue(c, 1),
      tx_lock |-> EmptyResource, tx_queue |-> <<EmptyResource>>,
      active_wifi_transmitters |-> <<>>, wifi_stations_in_backoff |-> <<>>,
      active_nru_transmitters |-> <<>>, nru_nodes_in_backoff |-> <<>>,
      chan |-> [ failed_transmissions_WiFi |-> 0, succeeded_transmissions_WiFi |-> 0,
                 bytes_sent |-> 0, failed_transmissions_NR |-> 0,
                 succeeded_transmissions_NR |-> 0,
                 backoff_counts |-> [b \in 0..c.backoff_keys |-> 0] ],
      data_airtime |-> [s \in N |-> 0], control_airtime |-> [s \in N |-> 0],
      sta |-> [s \in N |-> NewStation],
      proc |-> [s \in N |-> NewProcesses(s > c.n_wifi)],
      run |-> [status |-> "running", error |-> "none", arg |-> 0, until2 |-> 0,
               out |-> NoResults, index |-> 1],
      hist |-> [check |-> NoCheck, checks |-> 0, preempted |-> [s \in N |-> FALSE],
                joined |-> [s \in N |-> 0],
                preemption |-> [by |-> 0, victim |-> 0], preemptions |-> 0],
      times |-> Times(c.data_size, c.mcs) ]

\* The values of simulation_time the runs are made with, as until = simulation_time
\* * 1000000 in half microseconds: 0, half a microsecond, 100 us, every
\* millisecond up to the horizon, half a microsecond after the end of a Wi-Fi
\* frame that started after one DIFS, one microsecond after the end of a gNB
\* transmission that started then, MaxUntil and the horizon
SimulationTimes(S) ==
    IF S.cfg \in DriverRuns THEN {2 * MaxUntil} ELSE
    {0, 1, 200, 2 * (t_difs + WiFiFrameTime) + 1,
     2 * (t_difs + transmission_time + 1), 2 * MaxUntil, 2 * Horizon(S)}
        \cup { 2000 * k : k \in 1..(Horizon(S) \div 1000) }

\* The values of until with which environment.run returns in S.  Before any
\* event is processed: those that are not after now, which it refuses.  With
\* the clock at S.now and the next event at a later time: those after now and
\* not after the next event, so exactly the events processed so far are the run.
StopTimes(S) ==
    LET last == 2 * (IF S.queue = <<>> THEN Horizon(S) ELSE Min(Top(S).t, Horizon(S)))
    IN { u \in SimulationTimes(S) :
           \/ u > 2 * S.now /\ u <= last
           \/ u <= 2 * S.now /\ S.now = 0 /\ S = InitialState(S.cfg) }

\* environment.run(until=simulation_time * 1000000) raises for an until that
\* is not after now; otherwise it returns and the results are computed; the
\* fairness division raises when nothing was credited
Succ_simulate_coexistence(S) ==
    IF S.run.status = "running"
    THEN { LET s1 == [S EXCEPT !.run.until2 = u] IN
           IF u <= 2 * S.now
           THEN Crash(s1, "ValueError")
           ELSE IF Results(S).fairness_den = 0
           THEN Crash(s1, "ZeroDivisionError")
           ELSE [s1 EXCEPT !.run.status = "stopped", !.run.out = Results(S)] :
             u \in StopTimes(S) }
    ELSE {}

\* changing_number_nodes has been called for the sweep c: nothing is made yet,
\* neither the containers nor a station
Requested(c) ==
    [InitialState(c) EXCEPT !.queue = <<>>, !.sta = <<>>, !.proc = <<>>,
                            !.data_airtime = <<>>, !.control_airtime = <<>>,
                            !.chan.backoff_counts = <<>>,
                            !.hist.preempted = <<>>, !.hist.joined = <<>>,
                            !.run.status = "requested"]

\* mutant: the driver passes any mode on to simulate_coexistence
Succ_changing_number_nodes_AnyMode(S) ==
    IF S.cfg.entry # "changing_number_nodes" THEN {}
    ELSE IF S.run.status = "requested"
    THEN {InitialState(S.cfg)}
    ELSE IF S.run.status = "stopped" /\ S.run.index < S.cfg.runs
    THEN {[InitialState(S.cfg) EXCEPT !.chan.backoff_counts = S.chan.backoff_counts,
                                      !.run.index = S.run.index + 1]}
    ELSE {}

\* changing_number_nodes: a mode that is neither rs nor gap is refused before
\* anything is made; otherwise backoff_counts and the airtime dicts are made
\* and simulate_coexistence is called, once for each of the runs: it
\* constructs the channel and the stations (the constructors set the airtime
\* of each station to 0) and counts the draws in the backoff_counts of the
\* runs before.  A run that raises ends the sweep.
Succ_changing_number_nodes(S) ==
    IF S.cfg.entry # "changing_number_nodes" THEN {}
    ELSE IF S.run.status = "requested"
    THEN {IF ModeAccepted(S.cfg.nru_mode) THEN InitialState(S.cfg)
          ELSE Crash(S, "ValueError")}
    ELSE IF S.run.status = "stopped" /\ S.run.index < S.cfg.runs
    THEN {[InitialState(S.cfg) EXCEPT !.chan.backoff_counts = S.chan.backoff_counts,
                                      !.run.index = S.run.index + 1]}
    ELSE {}

\* the variables hold one of the states of D
InitFrom(D) ==
    \E T \in D :
        /\ cfg = T.cfg /\ now = T.now /\ queue = T.queue
        /\ tx_lock = T.tx_lock /\ tx_queue = T.tx_queue
        /\ active_wifi_transmitters = T.active_wifi_transmitters
        /\ wifi_stations_in_backoff = T.wifi_stations_in_backoff
        /\ active_nru_transmitters = T.active_nru_transmitters
        /\ nru_nodes_in_backoff = T.nru_nodes_in_backoff
        /\ chan = T.chan /\ data_airtime = T.data_airtime
        /\ control_airtime = T.control_airtime
        /\ sta = T.sta /\ proc = T.proc /\ run = T.run /\ hist = T.hist
        /\ times = T.times

\* a run asked of simulate_coexistence, its stations constructed, or a sweep
\* asked of changing_number_nodes
Init == InitFrom({ InitialState(c) : c \in Configs } \cup { Requested(c) : c \in DriverRuns })

-----------------------------------------------------------------------------
(* The next-state relation: one disjunct per generator segment and kernel
   callback, each taking the state to one of the successors its operator gives *)

Next ==
    \/ \E T \in Succ_changing_number_nodes(Cur) : Becomes(T)
    \/ \E T \in Succ_WiFi_start_process(Cur) : Becomes(T)
    \/ \E T \in Succ_WiFi_wait_back_off(Cur) : Becomes(T)
    \/ \E T \in Succ_WiFi_wait_back_off_locked(Cur) : Becomes(T)
    \/ \E T \in Succ_WiFi_wait_back_off_waited(Cur) : Becomes(T)
    \/ \E T \in Succ_WiFi_wait_back_off_interrupted(Cur) : Becomes(T)
    \/ \E T \in Succ_WiFi_start_process_send(Cur) : Becomes(T)
    \/ \E T \in Succ_WiFi_send_frame(Cur) : Becomes(T)
    \/ \E T \in Succ_WiFi_send_frame_contended(Cur) : Becomes(T)
    \/ \E T \in Succ_WiFi_send_frame_locked(Cur) : Becomes(T)
    \/ \E T \in Succ_WiFi_send_frame_sent(Cur) : Becomes(T)
    \/ \E T \in Succ_WiFi_send_frame_acked(Cur) : Becomes(T)
    \/ \E T \in Succ_WiFi_send_frame_timed_out(Cur) : Becomes(T)
    \/ \E T \in Succ_WiFi_send_frame_overlapped(Cur) : Becomes(T)
    \/ \E T \in Succ_WiFi_send_frame_overlap_end(Cur) : Becomes(T)
    \/ \E T \in Succ_WiFi_start_process_next(Cur) : Becomes(T)
    \/ \E T \in Succ_NRU_start_process(Cur) : Becomes(T)
    \/ \E T \in Succ_NRU_sync_slot_counter(Cur) : Becomes(T)
    \/ \E T \in Succ_NRU_sync_slot_boundary(Cur) : Becomes(T)
    \/ \E T \in Succ_NRU_wait_back_off(Cur) : Becomes(T)
    \/ \E T \in Succ_NRU_wait_back_off_locked(Cur) : Becomes(T)
    \/ \E T \in Succ_NRU_wait_back_off_waited(Cur) : Becomes(T)
    \/ \E T \in Succ_NRU_wait_back_off_interrupted(Cur) : Becomes(T)
    \/ \E T \in Succ_NRU_wait_back_off_gap(Cur) : Becomes(T)
    \/ \E T \in Succ_NRU_wait_back_off_gap_locked(Cur) : Becomes(T)
    \/ \E T \in Succ_NRU_wait_back_off_gap_waited(Cur) : Becomes(T)
    \/ \E T \in Succ_NRU_wait_back_off_gap_idle(Cur) : Becomes(T)
    \/ \E T \in Succ_NRU_start_process_send(Cur) : Becomes(T)
    \/ \E T \in Succ_NRU_start_process_next(Cur) : Becomes(T)
    \/ \E T \in Succ_NRU_send_transmission(Cur) : Becomes(T)
    \/ \E T \in Succ_NRU_send_transmission_contended(Cur) : Becomes(T)
    \/ \E T \in Succ_NRU_send_transmission_locked(Cur) : Becomes(T)
    \/ \E T \in Succ_NRU_send_transmission_sent(Cur) : Becomes(T)
    \/ \E T \in Succ_NRU_send_transmission_overlapped(Cur) : Becomes(T)
    \/ \E T \in Succ_send_preempted(Cur) : Becomes(T)
    \/ \E T \in Succ_queue_request_processed(Cur) : Becomes(T)
    \/ \E T \in Succ_timeout0_processed(Cur) : Becomes(T)
    \/ \E T \in Succ_lock_release_processed(Cur) : Becomes(T)
    \/ \E T \in Succ_queue_release_processed(Cur) : Becomes(T)
    \/ \E T \in Succ_detached_processed(Cur) : Becomes(T)
    \/ \E T \in Succ_simulate_coexistence(Cur) : Becomes(T)

Spec == Init /\ [][Next]_vars

\* Environment.run processes the events for as long as there are any before
\* `until`, and the statistics step follows its return: weak fairness of Next,
\* WF_vars(Next), with ENABLED <<Next>>_vars written out as the run not having
\* ended (a running simulation always has its stop among its successors)
LiveSpec ==
    /\ Init /\ [][Next]_vars
    /\ ([]<>(run.status \in {"stopped", "crashed"}) \/ []<><<Next>>_vars)

\* The Times object of a station, made from any payload and MCS index, and the
\* call of its get_ppdu_frame_time
TimesInit == InitFrom({ InitialState(c) : c \in TimesConfigs(Configs) })

Times_get_ppdu_frame_time ==
    /\ times.returned = <<>>
    /\ times' = [times EXCEPT !.returned = <<get_ppdu_frame_time(times)>>]
    /\ UNCHANGED <<cfg, now, queue, tx_lock, tx_queue, active_wifi_transmitters,
                   wifi_stations_in_backoff, active_nru_transmitters,
                   nru_nodes_in_backoff, chan, data_airtime, control_airtime,
                   sta, proc, run, hist>>

TimesSpec == TimesInit /\ [][Times_get_ppdu_frame_time]_vars

-----------------------------------------------------------------------------
(* Properties *)

AllStations == Stations(Cur)
\* the sweep was asked of changing_number_nodes with a mode it refuses
InvalidModeRequested ==
    cfg.entry = "changing_number_nodes" /\ ~ModeAccepted(cfg.nru_mode)
Total == TotalTransmitters(Cur)

\* C1: for every attempt of every Wi-Fi station and gNB, when its air-time
\* timeout completes (no sooner than a full air time after it joined the
\* active list) the
\* attempt is counted as a success, on the station and on the medium, if and
\* only if |active_wifi| + |active_nru| = 1 at that instant; otherwise it is
\* counted as a failure.
C1_SuccessIffSoleTransmitter ==
    [][(run'.index = run.index /\ hist'.checks # hist.checks) =>
        LET s == hist'.check.st
            sole == Len(active_wifi_transmitters) + Len(active_nru_transmitters) = 1
            ok == IF sole THEN 1 ELSE 0
            wifi == s <= cfg.n_wifi
        IN /\ hist'.check.on_air >= (IF wifi THEN WiFiFrameTime ELSE transmission_time)
           /\ sta'[s].succeeded = sta[s].succeeded + ok
           /\ sta'[s].failed = sta[s].failed + (1 - ok)
           /\ chan'.succeeded_transmissions_WiFi =
                  chan.succeeded_transmissions_WiFi + (IF wifi THEN ok ELSE 0)
           /\ chan'.failed_transmissions_WiFi =
                  chan.failed_transmissions_WiFi + (IF wifi THEN 1 - ok ELSE 0)
           /\ chan'.succeeded_transmissions_NR =
                  chan.succeeded_transmissions_NR + (IF wifi THEN 0 ELSE ok)
           /\ chan'.failed_transmissions_NR =
                  chan.failed_transmissions_NR + (IF wifi THEN 0 ELSE 1 - ok)]_vars

\* both outcomes have been recorded, by both technologies
C1_Witness ==
    /\ hist.checks > 0 /\ hist.check.ok
    /\ chan.failed_transmissions_WiFi > 0 /\ chan.failed_transmissions_NR > 0
    /\ chan.succeeded_transmissions_WiFi + chan.succeeded_transmissions_NR > 0

\* a station is inside its air-time window: it has joined the active list and
\* its air-time timeout (lock path or preemption branch) has not completed
InAirTimeWindow(s) == proc[s].send \in {"cond", "lock", "air", "pre_air"}

\* C2: in every reachable state, if at least one station is inside its
\* air-time window then |active_wifi| + |active_nru| >= 1.
C2_ActiveWhileOnAir ==
    (\E s \in AllStations : InAirTimeWindow(s)) => Total >= 1

\* C3: a run with exactly one station (one Wi-Fi station or one gNB, rs or gap
\* mode) never records a failure: failed stays 0 and every collision check
\* made is a success.
C3_SingleStationNeverFails ==
    cfg.n_wifi + cfg.n_nru = 1 =>
        /\ \A s \in AllStations : sta[s].failed = 0
        /\ chan.failed_transmissions_WiFi = 0 /\ chan.failed_transmissions_NR = 0
        /\ hist.checks > 0 => hist.check.ok
        /\ \A s \in AllStations : sta[s].succeeded = hist.checks

\* a lone gap-mode gNB has completed an attempt and is on air with the next
C3_Witness ==
    /\ cfg.n_wifi = 0 /\ cfg.n_nru = 1 /\ cfg.gap /\ AllStations = {1}
    /\ sta[1].succeeded >= 1 /\ proc[1].gen >= 2 /\ proc[1].send = "air"

\* C10: an attempt that went through the preemption branch (its tx_queue
\* request was not granted when made, or its grant was preempted) stays on air
\* for its full air time, then runs the collision check, and is never
\* recorded as a success.
C10_PreemptionBranchCollides ==
    hist.check.branch = "preempted" =>
        /\ ~hist.check.ok
        /\ hist.check.on_air = Duration(Cur, hist.check.st)
        /\ hist.check.total # 1

\* the last collision check was made from the preemption branch of a station
\* whose grant had been preempted
C10_Witness ==
    /\ hist.check.branch = "preempted"
    /\ hist.preemption.victim = hist.check.st

\* the airtime credited to a set of stations (data + control)
Credited(D) == Occupancy(Cur, D)

\* C4: at the end of every run the airtime credited to each technology and in
\* total lies between 0 and the simulated time simulation_time * 1000000
\* (occupancy in [0, 1]): airtime credited for an ACK or a transmission never
\* exceeds the virtual time elapsed when the run stops.
C4_OccupancyWithinRunTime ==
    run.status = "stopped" =>
        \A D \in {WiFiStations(Cur), NRUStations(Cur), AllStations} :
            /\ 0 <= Credited(D)
            /\ 2 * Credited(D) <= run.until2

\* C5: every per-node control_airtime and data_airtime counter is
\* non-negative in every reachable state, so for each technology the data
\* airtime sum (efficiency) never exceeds the data + control sum (occupancy).
C5_AirtimeNonNegative ==
    /\ \A s \in AllStations : data_airtime[s] >= 0 /\ control_airtime[s] >= 0
    /\ \A D \in {WiFiStations(Cur), NRUStations(Cur)} :
           Efficiency(Cur, D) <= Occupancy(Cur, D)

\* every state one Environment.step() can lead to from S
StepSuccessors(S) ==
    Succ_WiFi_start_process(S) \cup
    Succ_WiFi_wait_back_off(S) \cup
    Succ_WiFi_wait_back_off_locked(S) \cup
    Succ_WiFi_wait_back_off_waited(S) \cup
    Succ_WiFi_wait_back_off_interrupted(S) \cup
    Succ_WiFi_start_process_send(S) \cup
    Succ_WiFi_send_frame(S) \cup
    Succ_WiFi_send_frame_contended(S) \cup
    Succ_WiFi_send_frame_locked(S) \cup
    Succ_WiFi_send_frame_sent(S) \cup
    Succ_WiFi_send_frame_acked(S) \cup
    Succ_WiFi_send_frame_timed_out(S) \cup
    Succ_WiFi_send_frame_overlapped(S) \cup
    Succ_WiFi_send_frame_overlap_end(S) \cup
    Succ_WiFi_start_process_next(S) \cup
    Succ_NRU_start_process(S) \cup
    Succ_NRU_sync_slot_counter(S) \cup
    Succ_NRU_sync_slot_boundary(S) \cup
    Succ_NRU_wait_back_off(S) \cup
    Succ_NRU_wait_back_off_locked(S) \cup
    Succ_NRU_wait_back_off_waited(S) \cup
    Succ_NRU_wait_back_off_interrupted(S) \cup
    Succ_NRU_wait_back_off_gap(S) \cup
    Succ_NRU_wait_back_off_gap_locked(S) \cup
    Succ_NRU_wait_back_off_gap_waited(S) \cup
    Succ_NRU_wait_back_off_gap_idle(S) \cup
    Succ_NRU_start_process_send(S) \cup
    Succ_NRU_start_process_next(S) \cup
    Succ_NRU_send_transmission(S) \cup
    Succ_NRU_send_transmission_contended(S) \cup
    Succ_NRU_send_transmission_locked(S) \cup
    Succ_NRU_send_transmission_sent(S) \cup
    Succ_NRU_send_transmission_overlapped(S) \cup
    Succ_send_preempted(S) \cup
    Succ_queue_request_processed(S) \cup
    Succ_timeout0_processed(S) \cup
    Succ_lock_release_processed(S) \cup
    Succ_queue_release_processed(S) \cup
    Succ_detached_processed(S)

\* the values the random draw of the step from S can take ({0}: no draw)
DrawRange(S) ==
    IF Starts(S, "wbo") THEN BackoffDraws(S, Top(S).st)
    ELSE IF Starts(S, "sync") THEN S.cfg.desync[1]..S.cfg.desync[2]
    ELSE {0}

\* C6: the engine is deterministic: for fixed inputs and a fixed sequence of
\* random draws exactly one event sequence is possible (same-instant wake-ups
\* run in scheduling order, the lists are iterated in insertion order), so
\* every step has exactly one outcome per value of its draw and a run that
\* stops at a given time has exactly one result row.
C6_Deterministic ==
    /\ Steps(Cur) => Cardinality(StepSuccessors(Cur)) = Cardinality(DrawRange(Cur))
    /\ ~Steps(Cur) => StepSuccessors(Cur) = {}
    /\ Cardinality(Succ_simulate_coexistence(Cur)) <= Cardinality(StopTimes(Cur))
    /\ \A T1, T2 \in Succ_simulate_coexistence(Cur) :
           T1.run.until2 = T2.run.until2 => T1 = T2

\* two stations wake at the same instant with the same priority while two
\* stations are enrolled in the backoff lists
C6_Witness ==
    /\ Len(queue) >= 2 /\ run.status = "running"
    /\ queue[1].t = queue[2].t /\ queue[1].pr = queue[2].pr
    /\ queue[1].st # queue[2].st /\ queue[1].att /\ queue[2].att
    /\ queue[1].kind = "timeout" /\ queue[2].kind = "timeout"
    /\ Len(wifi_stations_in_backoff) + Len(nru_nodes_in_backoff) >= 2

\* the successors of S under every operation, Environment.run's return included
Successors(S) == StepSuccessors(S) \cup Succ_simulate_coexistence(S)

\* the runs that differ from the run of configuration c in nru_config and nru_mode only
NRUVariants(c) ==
    { [c EXCEPT !.nru_mode = m, !.gap = GAP_MODE_ENABLED(m), !.nru_cw = w, !.desync = d] :
        m \in NRUModeChoices, w \in NRUCwChoices, d \in DesyncChoices }

\* C7: with n_nru = 0 the NR-U lists stay empty, the NR-U counters and
\* airtime stay 0 and all nru outputs are exactly 0; and the Wi-Fi event
\* sequence and counters are the same for every nru_config and nru_mode: the
\* run under any other NR-U configuration makes the same steps to the same states.
C7_NoNRUIsolation ==
    cfg.n_nru = 0 =>
        /\ active_nru_transmitters = <<>> /\ nru_nodes_in_backoff = <<>>
        /\ chan.succeeded_transmissions_NR = 0 /\ chan.failed_transmissions_NR = 0
        /\ Occupancy(Cur, NRUStations(Cur)) = 0
        /\ run.out.nru_occupancy = 0 /\ run.out.nru_efficiency = 0
        /\ run.out.nru_collision = [formatted |-> FALSE, v |-> 0]
        /\ \A c \in NRUVariants(cfg) :
               /\ Successors([Cur EXCEPT !.cfg = c])
                      = { [T EXCEPT !.cfg = c] : T \in Successors(Cur) }
               /\ Cur = InitialState(cfg) => InitialState(c) = [Cur EXCEPT !.cfg = c]

\* a Wi-Fi-only run with collisions and successes has stopped and written its row
C7_Witness ==
    /\ cfg.n_nru = 0 /\ cfg.n_wifi >= 2 /\ run.status = "stopped"
    /\ chan.failed_transmissions_WiFi > 0 /\ chan.succeeded_transmissions_WiFi > 0

\* C8: in gap mode every NR-U attempt starts exactly on one of the gNB's own
\* sync-slot boundaries (desync + k * synchronization_slot_duration, k >= 0)
\* and carries rs_time = 0, whatever interruptions and channel-busy retries
\* the gap backoff went through.
C8_GapStartsOnBoundary ==
    cfg.gap =>
        \A s \in NRUStations(Cur) :
            proc[s].gen > 0 /\ proc[s].send # "init" =>
                /\ sta[s].start_time_us >= sta[s].desync
                /\ (sta[s].start_time_us - sta[s].desync) % synchronization_slot_duration = 0
                /\ sta[s].start_time_us = hist.joined[s]
                /\ sta[s].rs_time = 0
                /\ sta[s].airtime = transmission_time

\* a desynchronized gap-mode gNB that found the channel busy with Wi-Fi at the
\* end of its gap is on air several boundaries later
C8_Witness ==
    /\ cfg.gap /\ cfg.n_wifi >= 1
    /\ \E s \in NRUStations(Cur) :
           /\ proc[s].send \in {"air", "pre_air"}
           /\ sta[s].desync > 0
           /\ sta[s].start_time_us >= sta[s].desync + 2 * synchronization_slot_duration

\* C9: on tx_queue, with priority = MAX_TRANSMISSION_PRIORITY - air time, a
\* request with a strictly shorter air time (Wi-Fi, 5400) preempts a holder
\* with a longer one (NR-U, 6000), and a request with a longer air time never
\* preempts a holder with a shorter one.
C9_ShorterPreemptsLonger ==
    hist.preemptions > 0 =>
        Duration(Cur, hist.preemption.by) < Duration(Cur, hist.preemption.victim)

\* an Interruption is about to be delivered to the live process p of station s
InterruptDelivered(s, p) ==
    /\ Steps(Cur) /\ Top(Cur).kind = "interrupt"
    /\ Top(Cur).st = s /\ Top(Cur).proc = p
    /\ IF p = "send" THEN SendAlive(Cur, s, Top(Cur).gen) ELSE IsAlive(Cur, s, p)

\* C11: every interrupt delivered to a station task (a backoff interrupt from
\* a transmitter, a preemption on tx_queue) is caught at the task's current
\* suspension point and handled: the defer task goes back to the head of its
\* loop (or ends normally), the send task goes on air in its preemption
\* branch; no interrupt ends a station task or the run with an error, in
\* Wi-Fi, NR-U rs mode and NR-U gap mode.
C11_InterruptsCaught ==
    \* the Interrupt itself, an error of its handler, an interrupt sent to a
    \* finished task
    /\ [](/\ run.error \notin {"Interrupt", "UnboundLocalError", "RuntimeError"}
          /\ \A i \in 1..Len(queue) :
                 queue[i].err \notin {"Interrupt", "UnboundLocalError", "RuntimeError"})
    /\ [][\A s \in AllStations :
            /\ InterruptDelivered(s, "wbo") =>
                   /\ run'.status = "running"
                   /\ proc'[s].wbo \in {"lock", "dead"}
                   /\ proc'[s].main = "wait_wbo"
            /\ InterruptDelivered(s, "send") =>
                   /\ run'.status = "running"
                   /\ proc'[s].send = "pre_air"
                   /\ proc'[s].main = "wait_send"]_vars

\* a station whose grant of tx_queue was preempted is on air in its preemption
\* branch while a Wi-Fi station interrupted in its backoff waits for tx_lock,
\* still enrolled
C11_Witness ==
    /\ \E t \in AllStations : hist.preemption.victim = t /\ proc[t].send = "pre_air"
    /\ \E s \in WiFiStations(Cur) :
           /\ proc[s].wbo = "lock" /\ ~sta[s].first_interrupt
           /\ Contains(wifi_stations_in_backoff, s)

\* C12: for every Wi-Fi station, when a collision makes the frame's
\* retransmissions exceed retry_limit the frame is dropped: a new frame with
\* retransmissions = 0 is generated and failed_transmissions_in_row is reset
\* to 0; hence at every backoff draw 0 <= failed_transmissions_in_row <=
\* retry_limit and it equals the current frame's retransmissions.
C12_RetryLimitDropsFrame ==
    /\ [](\A s \in WiFiStations(Cur) :
             proc[s].wbo = "init" =>
                 /\ 0 <= sta[s].failed_transmissions_in_row
                 /\ sta[s].failed_transmissions_in_row <= cfg.r_limit
                 /\ sta[s].failed_transmissions_in_row = sta[s].number_of_retransmissions)
    /\ [][\A s \in WiFiStations(Cur) :
             (/\ sta'[s].failed = sta[s].failed + 1
              /\ sta[s].number_of_retransmissions + 1 > cfg.r_limit)
             => (/\ sta'[s].number_of_retransmissions = 0
                 /\ sta'[s].failed_transmissions_in_row = 0)]_vars

\* a Wi-Fi station that never succeeded is about to draw the backoff of the
\* frame that replaces the one it dropped at its second collision
C12_Witness ==
    \E s \in WiFiStations(Cur) :
        /\ proc[s].wbo = "init" /\ sta[s].succeeded = 0
        /\ sta[s].failed > cfg.r_limit
        /\ sta[s].number_of_retransmissions = 0
        /\ sta[s].failed_transmissions_in_row = 0

\* C13: for every gNB, once its retransmission count exceeds 7 (more than 7
\* collisions without an intervening success) failed_transmissions_in_row is
\* reset to 0, so that it is never above 8 in any reachable state.
C13_NRURetriesBounded ==
    \A s \in NRUStations(Cur) :
        sta[s].failed_transmissions_in_row <= NRURetransmissionCap + 1

\* C14: at the end of a run in which both the Wi-Fi occupancy and the NR-U
\* occupancy are 0 (no station at all, or no attempt succeeded) the
\* statistics step completes without error and the output row is written
\* (with jain_fairness = 1.0 and joint_airtime_fairness = 0).
C14_ZeroOccupancyRowWritten ==
    (/\ run.status \in {"stopped", "crashed"} /\ ~InvalidModeRequested
     /\ Occupancy(Cur, WiFiStations(Cur)) = 0
     /\ Occupancy(Cur, NRUStations(Cur)) = 0)
    => (run.status = "stopped" /\ run.error = "none")

\* C15: a run requested of the driver with an nru_mode outside {"rs", "gap"}
\* fails with an error before the engine starts: no station is created, no
\* simulation step runs and no output row is produced (it is not silently
\* run as rs mode); the only step of such a request is its refusal with the
\* ValueError.
C15_InvalidModeRejected ==
    /\ [](InvalidModeRequested =>
             /\ run.status \in {"requested", "crashed"}
             /\ run.status = "crashed" => run.error = "ValueError"
             /\ sta = <<>> /\ proc = <<>> /\ queue = <<>> /\ now = 0
             /\ chan.backoff_counts = <<>>
             /\ hist.checks = 0 /\ run.out = NoResults)
    /\ [][InvalidModeRequested =>
             /\ run.status = "requested"
             /\ run'.status = "crashed" /\ run'.error = "ValueError"]_vars

\* the run asked for with the mode lbt has been refused with the ValueError, no
\* station made
C15_Witness ==
    /\ cfg.entry = "changing_number_nodes" /\ cfg.nru_mode = "lbt" /\ run.status = "crashed" /\ run.error = "ValueError"
    /\ sta = <<>> /\ queue = <<>>

\* the process that holds or awaits tx_lock with request r has a wake-up
\* pending: the grant still to be processed, or the timeout it holds the lock over
WakeUpPending(r) ==
    \E i \in 1..Len(queue) :
        /\ queue[i].st = r.st /\ queue[i].proc = r.proc /\ queue[i].att
        /\ queue[i].kind \in {"lock_request", "timeout"}

\* C16: every run reaches its stop time simulation_time * 1000000: virtual
\* time can advance from every reachable state (no deadlock among the
\* stations waiting on tx_lock or tx_queue: a held lock has a holder with a
\* wake-up pending, a free lock with waiters has its release pending), every
\* acquisition of tx_lock is followed by its release (unless the run stops
\* first), the run ends, and no station task ends with an error (the only
\* errors are the one environment.run raises for a simulation_time that is not
\* positive, before any event, and the one of the statistics step, after the
\* run; a run whose backoff_counts is not sized for its draws is not one of a
\* valid configuration, and the KeyError of such a draw ends it).
C16_RunsToCompletion ==
    /\ [](/\ \/ run.error \in {"none", "ZeroDivisionError"}
             \/ run.error = "ValueError" /\ run.until2 <= 0 /\ now = 0 /\ hist.checks = 0
             \/ run.error = "KeyError" /\ ~PreSized(cfg)
          /\ \A i \in 1..Len(queue) :
                 \/ queue[i].err = "none"
                 \/ queue[i].err = "KeyError" /\ ~PreSized(cfg))
    /\ [](run.status = "running" =>
            /\ Successors(Cur) # {}
            /\ \A i \in 1..Len(tx_lock.users) : WakeUpPending(tx_lock.users[i])
            /\ (tx_lock.users = <<>> /\ tx_lock.put_queue # <<>>) =>
                   \E i \in 1..Len(queue) : queue[i].kind = "lock_release")
    /\ (tx_lock.users # <<>>) ~> (tx_lock.users = <<>> \/ run.status # "running")
    /\ <>(run.status \in {"stopped", "crashed"})

\* a coexistence run with successes and collisions has reached the latest
\* stop time while a station holds tx_lock and two others wait for it
C16_Witness ==
    /\ run.status = "stopped" /\ run.until2 = 2 * Horizon(Cur)
    /\ cfg.n_wifi >= 1 /\ cfg.n_nru >= 1
    /\ tx_lock.users # <<>> /\ Len(tx_lock.put_queue) >= 2
    /\ hist.checks >= 2


\* C17: for every payload size and every MCS index in 0..7 the PPDU time is
\* 16 + 4 + ceil((22 + 8 * (40 + payload)) / (4 * data_rate)) * 4 with the data
\* rates 6, 9, 12, 18, 24, 36, 48, 54: an integer of at least 20, and 248 for
\* payload 1472 at MCS 7.
C17_PpduTime ==
    times.returned # <<>> =>
        LET rate == <<6, 9, 12, 18, 24, 36, 48, 54>>[times.mcs + 1]
            bits == 22 + 8 * (40 + times.payload)
            symbols == IF bits % (4 * rate) = 0 THEN bits \div (4 * rate)
                       ELSE bits \div (4 * rate) + 1
        IN  /\ times.returned = <<16 + 4 + symbols * 4>>
            /\ times.returned[1] \in Nat /\ times.returned[1] >= 20
            /\ (times.payload = 1472 /\ times.mcs = 7) => times.returned = <<248>>

C17_Witness ==
    /\ times.payload = 1472 /\ times.mcs = 7 /\ times.returned = <<248>>
    /\ cfg.data_size = 1472 /\ cfg.mcs = 7


\* C18: every backoff draw of a Wi-Fi station or gNB yields a slot count in
\* 0..min(2^retries_in_a_row * (min_cw + 1) - 1, max_cw): it never exceeds
\* max_cw, and with min_cw = max_cw = 0 it is always 0.  (A gap-mode gNB adds
\* the prioritization period to the drawn slots at once.  The draw is counted
\* in backoff_counts; a draw the caller's dict has no entry for is the argument
\* of the KeyError that ends the backoff task.)
C18_BackoffDrawWithinWindow ==
    [][\A s \in AllStations :
          (Starts(Cur, "wbo") /\ Top(Cur).st = s /\ run'.status = "running") =>
              LET failed == proc'[s].wbo = "dead"
                  cw == IF IsWiFi(Cur, s) THEN cfg.wifi_cw ELSE cfg.nru_cw
                  retries == sta[s].failed_transmissions_in_row
                  slot == IF IsWiFi(Cur, s) THEN t_slot ELSE observation_slot_duration
                  drawn == IF IsNRU(Cur, s) /\ cfg.gap
                           THEN sta'[s].back_off_time - prioritization_period_time
                           ELSE sta'[s].back_off_time
                  limit == IF 2^retries * (cw[1] + 1) - 1 <= cw[2]
                           THEN 2^retries * (cw[1] + 1) - 1 ELSE cw[2]
              IN  /\ ~failed =>
                         /\ drawn % slot = 0
                         /\ 0 <= drawn \div slot /\ drawn \div slot <= limit
                         /\ drawn \div slot <= cw[2]
                         /\ cw = <<0, 0>> => drawn = 0
                         /\ chan'.backoff_counts =
                                [chan.backoff_counts EXCEPT ![drawn \div slot] = @ + 1]
                  /\ failed =>
                         \E i \in 1..Len(queue') :
                             /\ queue'[i].kind = "process" /\ queue'[i].st = s
                             /\ queue'[i].proc = "wbo" /\ queue'[i].err = "KeyError"
                             /\ 0 <= queue'[i].arg /\ queue'[i].arg <= limit
                             /\ queue'[i].arg <= cw[2]
                             /\ queue'[i].arg \notin DOMAIN chan.backoff_counts
                             /\ chan' = chan /\ sta' = sta]_vars

C18_Witness ==
    /\ \E s \in WiFiStations(Cur) :
           /\ cfg.wifi_cw = <<2, 3>> /\ sta[s].failed_transmissions_in_row = 1
           /\ proc[s].wbo = "lock" /\ sta[s].first_interrupt
           /\ sta[s].back_off_time = 3 * t_slot
    /\ \E s \in NRUStations(Cur) :
           /\ cfg.nru_cw = <<2, 3>> /\ sta[s].failed_transmissions_in_row >= 1
           /\ proc[s].wbo = "lock"
           /\ sta[s].back_off_time = 3 * observation_slot_duration

\* C19: when a Wi-Fi station is interrupted during its backoff timeout after
\* waiting `waited` microseconds, its remaining backoff is the drawn slot budget
\* if waited <= DIFS, and otherwise the budget less floor((waited - DIFS) / slot)
\* whole slots: always a whole number of slots; the full DIFS is added again
\* before the next countdown is armed.
C19_WiFiRemainingBackoff ==
    [][\A s \in WiFiStations(Cur) :
          /\ (InterruptDelivered(s, "wbo") /\ proc[s].wbo = "backoff") =>
                 LET waited == Head(queue).t - sta[s].start
                     budget == sta[s].back_off_time - t_difs
                 IN  /\ sta'[s].back_off_time =
                            IF waited <= t_difs THEN budget
                            ELSE budget - ((waited - t_difs) \div t_slot) * t_slot
                     /\ sta'[s].back_off_time % t_slot = 0
                     /\ sta'[s].back_off_time >= 0
                     /\ proc'[s].wbo = "lock"
          /\ (Resumes(Cur, "lock_request", "wbo", "lock") /\ Top(Cur).st = s) =>
                 /\ sta'[s].back_off_time = sta[s].back_off_time + t_difs
                 /\ proc'[s].wbo = "backoff"
                 /\ \E i \in 1..Len(queue') :
                        /\ queue'[i].kind = "timeout" /\ queue'[i].st = s
                        /\ queue'[i].proc = "wbo" /\ queue'[i].att
                        /\ queue'[i].t = now' + sta'[s].back_off_time]_vars

C19_Witness ==
    \E s \in WiFiStations(Cur) :
        /\ proc[s].wbo = "lock" /\ ~sta[s].first_interrupt
        /\ Contains(wifi_stations_in_backoff, s)
        /\ now - sta[s].start = t_difs + t_slot
        /\ sta[s].back_off_time = t_slot

\* C20: in rs mode the defer loop of a gNB is the Wi-Fi one with PP (43 us) as
\* the prefix and the observation slot (9 us) as the slot: after an interruption
\* at `waited` the remaining budget is the drawn slots if waited <= PP, else the
\* drawn slots less floor((waited - PP) / 9) whole slots, and PP is added exactly
\* once per countdown: the armed timeout is always the remaining slots + PP.
C20_NRURemainingBackoff ==
    [][\A s \in NRUStations(Cur) :
          ~cfg.gap =>
          /\ (InterruptDelivered(s, "wbo") /\ proc[s].wbo = "backoff") =>
                 LET waited == Head(queue).t - sta[s].start
                     slots == (sta[s].back_off_time - 43) \div 9
                 IN  /\ sta[s].back_off_time = slots * 9 + 43
                     /\ sta'[s].back_off_time =
                            IF waited <= 43 THEN slots * 9
                            ELSE (slots - ((waited - 43) \div 9)) * 9
                     /\ proc'[s].wbo = "lock"
          /\ (Resumes(Cur, "lock_request", "wbo", "lock") /\ Top(Cur).st = s) =>
                 /\ sta[s].back_off_time % 9 = 0 /\ sta[s].back_off_time >= 0
                 /\ proc'[s].wbo = "backoff"
                 /\ \E i \in 1..Len(queue') :
                        /\ queue'[i].kind = "timeout" /\ queue'[i].st = s
                        /\ queue'[i].proc = "wbo" /\ queue'[i].att
                        /\ queue'[i].t = now' + sta[s].back_off_time + 43]_vars

C20_Witness ==
    \E s \in NRUStations(Cur) :
        /\ ~cfg.gap /\ proc[s].wbo = "lock" /\ ~sta[s].first_interrupt
        /\ Contains(nru_nodes_in_backoff, s)
        /\ now - sta[s].start = 43 + 9
        /\ sta[s].back_off_time = 9


\* C21: in gap mode, after an interrupt during the backoff timeout the backoff of
\* the gNB is PP plus the drawn slots less the whole observation slots that
\* elapsed after the first PP of waiting: it stays at least PP, stays PP plus a
\* whole number of observation slots, and never increases across the interrupts
\* of one backoff procedure.
C21_GapRemainingBackoff ==
    [][\A s \in NRUStations(Cur) :
          (cfg.gap /\ proc[s].wbo \in {"lock", "gap", "lock2", "backoff"}
                   /\ run'.status = "running") =>
          /\ (InterruptDelivered(s, "wbo") /\ proc[s].wbo = "backoff") =>
                 LET waited == Head(queue).t - sta[s].start
                     elapsed == IF waited <= 43 THEN 0 ELSE (waited - 43) \div 9
                 IN  /\ sta'[s].back_off_time = sta[s].back_off_time - elapsed * 9
                     /\ proc'[s].wbo = "lock"
          /\ proc'[s].wbo \in {"lock", "gap", "lock2", "backoff"} =>
                 /\ sta'[s].back_off_time >= 43
                 /\ (sta'[s].back_off_time - 43) % 9 = 0
                 /\ sta'[s].back_off_time <= sta[s].back_off_time]_vars

C21_Witness ==
    \E s \in NRUStations(Cur) :
        /\ cfg.gap /\ proc[s].wbo = "lock"
        /\ ~sta[s].first_interrupt /\ ~sta[s].waiting_backoff
        /\ Contains(nru_nodes_in_backoff, s)
        /\ now - sta[s].start = 43 + 9 + 8
        /\ sta[s].back_off_time = 43 + 9


\* C22: for every Wi-Fi station each recorded success credits exactly the air
\* time (5400) to its data_airtime, exactly the ACK time (44) to its
\* control_airtime and data_size bytes to bytes_sent, and failures credit
\* nothing: data_airtime[s] = 5400 * successes[s] and control_airtime[s] =
\* 44 * successes[s] in every state.
C22_WiFiSuccessCredits ==
    /\ [](/\ \A s \in WiFiStations(Cur) :
               /\ data_airtime[s] = 5400 * sta[s].succeeded
               /\ control_airtime[s] = 44 * sta[s].succeeded
          /\ chan.bytes_sent = cfg.data_size * chan.succeeded_transmissions_WiFi)
    /\ [][\A s \in WiFiStations(Cur) :
             /\ sta'[s].succeeded # sta[s].succeeded =>
                    /\ sta'[s].succeeded = sta[s].succeeded + 1
                    /\ data_airtime'[s] = data_airtime[s] + 5400
                    /\ control_airtime'[s] = control_airtime[s] + 44
                    /\ chan'.bytes_sent = chan.bytes_sent + cfg.data_size
             /\ sta'[s].failed # sta[s].failed =>
                    /\ data_airtime'[s] = data_airtime[s]
                    /\ control_airtime'[s] = control_airtime[s]
                    /\ chan'.bytes_sent = chan.bytes_sent]_vars

C22_Witness ==
    \E s \in WiFiStations(Cur) :
        /\ sta[s].failed >= 1 /\ sta[s].succeeded = 1
        /\ data_airtime[s] = 5400 /\ control_airtime[s] = 44
        /\ chan.bytes_sent = 1472


\* C23: for every gNB each recorded success credits the reservation-signal time
\* of the transmission to its control_airtime and the data time to its
\* data_airtime, and failures credit nothing: data_airtime[g] +
\* control_airtime[g] = mcot * 1000 * successes[g] in every state.
C23_NRUSuccessCredits ==
    /\ [](\A g \in NRUStations(Cur) :
             data_airtime[g] + control_airtime[g] = mcot * 1000 * sta[g].succeeded)
    /\ [][run'.index = run.index => \A g \in NRUStations(Cur) :
             /\ sta'[g].succeeded # sta[g].succeeded =>
                    /\ sta'[g].succeeded = sta[g].succeeded + 1
                    /\ control_airtime'[g] = control_airtime[g] + sta[g].rs_time
                    /\ data_airtime'[g] = data_airtime[g] + sta[g].airtime
             /\ sta'[g].failed # sta[g].failed =>
                    /\ data_airtime'[g] = data_airtime[g]
                    /\ control_airtime'[g] = control_airtime[g]]_vars

C23_Witness ==
    \E g \in NRUStations(Cur) :
        /\ ~cfg.gap /\ sta[g].failed >= 1 /\ sta[g].succeeded = 1
        /\ control_airtime[g] > 0 /\ data_airtime[g] > 0
        /\ control_airtime[g] = sta[g].rs_time


\* C24: at the instant a station acquires tx_lock for its transmission, every
\* station (Wi-Fi or gNB) that is suspended in its backoff timeout receives an
\* interrupt in that same instant; so no backoff countdown keeps running, or
\* completes, while another station holds tx_lock for its time on air.
C24_BackoffInterruptedOnAcquire ==
    /\ [][\A s \in AllStations :
             (Resumes(Cur, "lock_request", "send", "lock") /\ Top(Cur).st = s) =>
                 /\ proc'[s].send = "air"
                 /\ \A r \in AllStations :
                        proc[r].wbo = "backoff" =>
                            \E i \in 1..Len(queue') :
                                /\ queue'[i].kind = "interrupt" /\ queue'[i].st = r
                                /\ queue'[i].proc = "wbo" /\ queue'[i].t = now'
                                /\ \A j \in 1..(i - 1) : queue'[j].kind = "interrupt"]_vars
    /\ [](\A s, r \in AllStations :
             (run.status = "running" /\ proc[s].send = "air" /\ proc[r].wbo = "backoff") =>
                 \E i \in 1..Len(queue) :
                     /\ queue[i].kind = "interrupt" /\ queue[i].st = r
                     /\ queue[i].proc = "wbo" /\ queue[i].t = now)
    /\ [][\A r \in AllStations :
             (Resumes(Cur, "timeout", "wbo", "backoff") /\ Top(Cur).st = r) =>
                 \A s \in AllStations : proc[s].send # "air"]_vars

C24_Witness ==
    \E s, r, q \in AllStations :
        /\ IsWiFi(Cur, r) /\ IsNRU(Cur, q)
        /\ proc[s].send = "air" /\ hist.joined[s] = now
        /\ proc[r].wbo = "backoff" /\ proc[q].wbo = "backoff"
        /\ now > sta[r].start /\ now > sta[q].start


\* C25: whenever a deferring station observes a backoff interrupt, the station
\* that sent it has already joined its list of active transmitters and already
\* holds tx_lock: both precede the handler of the interrupted station.
C25_InterrupterActiveAndLocked ==
    [][\A r \in AllStations :
          InterruptDelivered(r, "wbo") =>
              \E s \in AllStations \ {r} :
                  /\ proc[s].send = "air" /\ hist.joined[s] = Head(queue).t
                  /\ Contains(IF IsWiFi(Cur, s) THEN active_wifi_transmitters
                              ELSE active_nru_transmitters, s)
                  /\ \E i \in 1..Len(tx_lock.users) :
                         tx_lock.users[i].st = s /\ tx_lock.users[i].proc = "send"]_vars

C25_Witness ==
    \E s, r \in AllStations :
        /\ proc[r].wbo = "lock" /\ ~sta[r].first_interrupt /\ now > sta[r].start
        /\ proc[s].send = "air" /\ hist.joined[s] = now
        /\ \E i \in 1..Len(tx_lock.users) : tx_lock.users[i].st = s
        /\ \A i \in 1..Len(queue) : queue[i].kind # "interrupt"


\* C26: in every reachable state the members of wifi_stations_in_backoff and
\* nru_nodes_in_backoff are exactly the stations suspended in their backoff
\* timeout: a station enters when it starts its countdown and is out as soon as
\* the countdown ends, completed or interrupted (no stale entry remains while
\* the station waits for tx_lock or transmits).
C26_DeferringListsExact ==
    \A s \in AllStations :
        /\ Contains(wifi_stations_in_backoff, s) <=> (IsWiFi(Cur, s) /\ proc[s].wbo = "backoff")
        /\ Contains(nru_nodes_in_backoff, s) <=> (IsNRU(Cur, s) /\ proc[s].wbo = "backoff")


\* C27: for every gNB, once its sync-slot counter has started,
\* now <= next boundary <= now + max(sync slot duration, desync) in every state
\* and the next boundary is desync + k * sync slot duration; hence in rs mode
\* (with max desync <= sync slot duration) every transmission has
\* 0 <= rs_time <= sync slot duration, rs_time + data time = mcot * 1000 and
\* data time >= 0.
C27_SyncSlotBoundary ==
    /\ [](\A g \in NRUStations(Cur) :
             proc[g].sync # "init" =>
                 LET b == sta[g].next_sync_slot_boundry
                     d == sta[g].desync
                 IN  /\ now <= b
                     /\ b <= now + (IF d > synchronization_slot_duration THEN d
                                    ELSE synchronization_slot_duration)
                     /\ b >= d /\ (b - d) % synchronization_slot_duration = 0)
    /\ [][\A g \in NRUStations(Cur) :
             (Starts(Cur, "send") /\ Top(Cur).st = g /\ ~cfg.gap
                 /\ cfg.desync[2] <= synchronization_slot_duration) =>
                 /\ sta'[g].rs_time = sta[g].next_sync_slot_boundry - now'
                 /\ 0 <= sta'[g].rs_time
                 /\ sta'[g].rs_time <= synchronization_slot_duration
                 /\ sta'[g].rs_time + sta'[g].airtime = mcot * 1000
                 /\ sta'[g].airtime >= 0]_vars

C27_Witness ==
    \E g \in NRUStations(Cur) :
        /\ ~cfg.gap /\ proc[g].send = "air" /\ sta[g].desync = 531
        /\ sta[g].next_sync_slot_boundry >= 531 + 6 * synchronization_slot_duration
        /\ sta[g].rs_time > 0 /\ sta[g].rs_time + sta[g].airtime = mcot * 1000
        /\ sta[g].start_time_us > mcot * 1000


\* C28: in the gap-mode defer loop the boundary chosen is the earliest sync-slot
\* boundary of the gNB lying strictly more than the backoff after now, so the
\* gap waited before the countdown is strictly positive and at most
\* max(sync slot duration, time to the first boundary), and gap + backoff ends
\* exactly on that boundary.
C28_GapBoundaryChosen ==
    [][\A g \in NRUStations(Cur) :
          (Resumes(Cur, "lock_request", "wbo", "lock") /\ Top(Cur).st = g /\ cfg.gap) =>
              LET b == sta[g].back_off_time
                  first == sta[g].next_sync_slot_boundry
                  chosen == now' + sta'[g].time_to_next_sync_slot
              IN  /\ proc'[g].wbo = "gap" /\ sta'[g].back_off_time = b
                  /\ chosen >= first
                  /\ (chosen - first) % synchronization_slot_duration = 0
                  /\ chosen - now' > b
                  /\ chosen # first => chosen - synchronization_slot_duration - now' <= b
                  /\ \E i \in 1..Len(queue') :
                         /\ queue'[i].kind = "timeout" /\ queue'[i].st = g
                         /\ queue'[i].proc = "wbo" /\ queue'[i].att
                         /\ queue'[i].t > now'
                         /\ queue'[i].t - now' <=
                                (IF first - now' > synchronization_slot_duration
                                 THEN first - now' ELSE synchronization_slot_duration)
                         /\ queue'[i].t + b = chosen]_vars

C28_Witness ==
    \E g \in NRUStations(Cur) :
        /\ cfg.gap /\ proc[g].wbo = "gap" /\ now > 0
        /\ sta[g].next_sync_slot_boundry - now <= sta[g].back_off_time
        /\ \E i \in 1..Len(queue) :
               /\ queue[i].kind = "timeout" /\ queue[i].st = g /\ queue[i].proc = "wbo"
               /\ queue[i].t + sta[g].back_off_time =
                      sta[g].next_sync_slot_boundry + synchronization_slot_duration
               /\ queue[i].t - now = sta[g].time_to_next_sync_slot - sta[g].back_off_time


\* C29: a gap-mode gNB starts its backoff countdown (enrols in
\* nru_nodes_in_backoff) only at an instant when active_wifi_transmitters and
\* active_nru_transmitters are both empty; if either is non-empty when its gap
\* wait ends it waits for tx_lock and re-enters the defer loop with its backoff
\* unchanged.
C29_GapCountdownOnIdleChannel ==
    [][\A g \in NRUStations(Cur) :
          cfg.gap =>
          /\ (proc[g].wbo # "backoff" /\ proc'[g].wbo = "backoff") =>
                 /\ active_wifi_transmitters = <<>> /\ active_nru_transmitters = <<>>
                 /\ active_wifi_transmitters' = <<>> /\ active_nru_transmitters' = <<>>
                 /\ Contains(nru_nodes_in_backoff', g)
          /\ (Resumes(Cur, "timeout", "wbo", "gap") /\ Top(Cur).st = g
                 /\ run'.status = "running"
                 /\ (active_wifi_transmitters # <<>> \/ active_nru_transmitters # <<>>)) =>
                 /\ proc'[g].wbo = "lock2"
                 /\ nru_nodes_in_backoff' = nru_nodes_in_backoff
                 /\ \E i \in 1..Len(tx_lock'.put_queue) :
                        tx_lock'.put_queue[i] = [st |-> g, proc |-> "wbo"]
          /\ (proc[g].wbo = "lock2" /\ run'.status = "running") =>
                 /\ sta'[g].back_off_time = sta[g].back_off_time
                 /\ proc'[g].wbo \in {"lock2", "lock"}]_vars

C29_Witness ==
    \E g \in NRUStations(Cur) :
        /\ cfg.gap /\ proc[g].wbo = "lock" /\ sta[g].first_interrupt
        /\ ~Contains(nru_nodes_in_backoff, g)
        /\ sta[g].back_off_time >= prioritization_period_time
        /\ sta[g].start > 0 /\ now > sta[g].start
        /\ active_wifi_transmitters = <<>> /\ active_nru_transmitters = <<>>
        /\ hist.joined[g] = 0


\* C30: when two stations with equal air time complete their backoff at the
\* same instant, the one whose tx_queue request was issued first acquires the
\* resource and takes the lock path, the other takes the preemption branch,
\* and both attempts are recorded as failures.
C30_TieToEarlierRequester ==
    [][\A s, r \in AllStations :
          (/\ s # r /\ IsWiFi(Cur, s) = IsWiFi(Cur, r)
           /\ hist.joined[s] = hist.joined[r] /\ hist.joined[s] > 0) =>
          LET active == IF IsWiFi(Cur, s) THEN active_wifi_transmitters
                        ELSE active_nru_transmitters
              first(a, b) == \E i, j \in 1..Len(active) :
                                 i < j /\ active[i] = a /\ active[j] = b
              alone == \A u \in AllStations \ {s, r} : hist.joined[u] # hist.joined[s]
          IN  /\ (Resumes(Cur, "condition", "send", "cond") /\ Top(Cur).st = s
                  /\ hist.joined[s] = now /\ alone) =>
                     /\ first(s, r) =>
                            /\ proc'[s].send = "lock"
                            /\ tx_queue[Len(tx_queue)].users # <<>>
                            /\ tx_queue[Len(tx_queue)].users[1].st = s
                     /\ first(r, s) => proc'[s].send = "pre_air"
              /\ (sta'[s].succeeded # sta[s].succeeded \/ sta'[s].failed # sta[s].failed) =>
                     /\ sta'[s].failed = sta[s].failed + 1
                     /\ sta'[s].succeeded = sta[s].succeeded]_vars

C30_Witness ==
    \E s, r \in AllStations :
        /\ s # r /\ cfg.n_wifi + cfg.n_nru = 2 /\ IsWiFi(Cur, s) = IsWiFi(Cur, r)
        /\ hist.joined[s] = hist.joined[r] /\ hist.joined[s] > 0
        /\ ~hist.preempted[s] /\ hist.preempted[r]
        /\ sta[s].failed = 1 /\ sta[r].failed = 1
        /\ sta[s].succeeded = 0 /\ sta[r].succeeded = 0

\* C31 (as stated): a station on the lock path holds tx_lock and keeps its
\* grant of tx_queue from the acquisition of the channel until the end of its
\* wait: air time + ACK time (44 us) after a Wi-Fi success, air time + ACK
\* timeout (45 us) after a Wi-Fi collision, mcot * 1000 us for a gNB.
C31_ResourcesHeldThroughWait ==
    \A s \in AllStations :
        proc[s].send \in {"air", "ack", "ackto"} =>
            /\ tx_lock.users = <<[st |-> s, proc |-> "send"]>>
            /\ LET U == tx_queue[Len(tx_queue)].users
               IN Len(U) = 1 /\ U[1].st = s /\ U[1].gen = proc[s].gen

\* C31 (amended): a station on the lock path holds tx_lock from the instant it
\* acquires it until it returns.  On acquiring it the station waits one
\* timeout of its air time (the frame time for Wi-Fi, mcot * 1000 us for a
\* gNB); when that timeout ends the attempt is checked, a gNB returns at once
\* whatever the outcome, and a Wi-Fi station waits one more timeout, 44 us
\* after a success and 45 us after a collision, and returns when it ends.  The
\* grant of tx_queue is kept through the air time and the ACK wait of a
\* success; after a collision tx_queue is released and replaced by a fresh
\* resource at the end of the air time, before the ACK timeout is waited.
C31_LockHeldThroughWait ==
    /\ [](\A s \in AllStations :
            /\ proc[s].send \in {"air", "ack", "ackto"} =>
                   tx_lock.users = <<[st |-> s, proc |-> "send"]>>
            /\ proc[s].send \in {"air", "ack"} =>
                   LET U == tx_queue[Len(tx_queue)].users
                   IN Len(U) = 1 /\ U[1].st = s /\ U[1].gen = proc[s].gen
            /\ proc[s].send = "ackto" =>
                   /\ IsWiFi(Cur, s) /\ Len(tx_queue) > 1
                   /\ \A i \in 1..Len(tx_queue[Len(tx_queue)].users) :
                          tx_queue[Len(tx_queue)].users[i].st # s)
    /\ [][\A s \in AllStations :
            LET wait == IF IsNRU(Cur, s) THEN 0
                        ELSE IF sta'[s].succeeded # sta[s].succeeded
                        THEN AckFrameTime ELSE ack_timeout
            IN
            /\ (proc[s].send = "lock" /\ proc'[s].send = "air") =>
                   \E i \in 1..Len(queue') :
                       /\ queue'[i].kind = "timeout" /\ queue'[i].st = s
                       /\ queue'[i].proc = "send" /\ queue'[i].att
                       /\ queue'[i].t = now' + Duration(Cur, s)
            /\ (proc[s].send = "air" /\ proc'[s].send # "air") =>
                   /\ Resumes(Cur, "timeout", "send", "air") /\ Top(Cur).st = s
                   /\ hist'.checks = hist.checks + 1
                   /\ proc'[s].send = (IF IsNRU(Cur, s) THEN "dead"
                                       ELSE IF hist'.check.ok THEN "ack" ELSE "ackto")
                   /\ IsWiFi(Cur, s) =>
                          \E i \in 1..Len(queue') :
                              /\ queue'[i].kind = "timeout" /\ queue'[i].st = s
                              /\ queue'[i].proc = "send" /\ queue'[i].att
                              /\ queue'[i].t = now' + wait
            /\ (proc[s].send \in {"air", "ack", "ackto"} /\ proc'[s].send = "dead") =>
                   /\ tx_lock'.users = <<>>
                   /\ \A i \in 1..Len(tx_queue'[Len(tx_queue')].users) :
                          tx_queue'[Len(tx_queue')].users[i].st # s
                   /\ Resumes(Cur, "timeout", "send", proc[s].send)
                   /\ Top(Cur).st = s
                   /\ IsWiFi(Cur, s) => proc[s].send # "air"
                   /\ \E i \in 1..Len(queue') :
                          /\ queue'[i].kind = "process" /\ queue'[i].st = s
                          /\ queue'[i].proc = "send" /\ queue'[i].t = now'
                          /\ queue'[i].val = (IF IsNRU(Cur, s) THEN hist'.check.ok
                                              ELSE proc[s].send = "ack")]_vars

\* a Wi-Fi station in the ACK timeout of a collision on the lock path: it holds
\* tx_lock, and tx_queue is already the fresh resource
C31_Witness ==
    \E s \in AllStations :
        /\ IsWiFi(Cur, s) /\ proc[s].send = "ackto"
        /\ now = hist.joined[s] + WiFiFrameTime
        /\ tx_lock.users = <<[st |-> s, proc |-> "send"]>>
        /\ Len(tx_queue) = 2 /\ tx_queue[2] = EmptyResource
        /\ tx_queue[1].users = <<>>
        /\ sta[s].failed = 1

\* C32: in the defer loop a station acquires tx_lock and releases it in the
\* same virtual instant: a grant of tx_lock to a deferring station is released
\* by the step that delivers it, and whenever tx_lock is held across a time
\* advance its holder is on air or in its ACK / ACK-timeout wait.
C32_DeferLockNotHeldAcrossTime ==
    /\ [](\A i \in 1..Len(tx_lock.users) :
            tx_lock.users[i].proc = "wbo" =>
                LET s == tx_lock.users[i].st IN
                /\ proc[s].wbo \in {"lock", "lock2"}
                /\ \E k \in 1..Len(queue) :
                       /\ queue[k].kind = "lock_request" /\ queue[k].st = s
                       /\ queue[k].proc = "wbo" /\ queue[k].t = now)
    /\ [][/\ now' > now =>
                \A i \in 1..Len(tx_lock.users) :
                    /\ tx_lock.users[i].proc = "send"
                    /\ proc[tx_lock.users[i].st].send \in {"air", "ack", "ackto"}
          /\ \A s \in AllStations :
                (proc[s].wbo \in {"lock", "lock2"} /\ proc'[s].wbo \notin {"lock", "lock2"}) =>
                    \A i \in 1..Len(tx_lock'.users) : tx_lock'.users[i].st # s]_vars

\* a station has just armed its countdown, after waiting for tx_lock until the
\* sender released it: tx_lock is free again in the same instant
C32_Witness ==
    \E s, r \in AllStations :
        /\ s # r /\ proc[s].wbo = "backoff" /\ sta[s].start = now
        /\ tx_lock.users = <<>>
        /\ proc[r].send = "dead" /\ hist.joined[r] > 0
        /\ now >= hist.joined[r] + WiFiFrameTime

\* C33: in every reachable state at most one station holds tx_lock and at most
\* one station holds the medium's tx_queue (and each PreemptiveResource made
\* before it), including across a preemption, where the victim's grant is
\* taken away in the step that grants the preempting request, and across the
\* replacement of tx_queue after a collision, where the fresh resource starts
\* without a holder.
C33_OneHolder ==
    /\ [](/\ Len(tx_lock.users) <= 1
          /\ \A q \in 1..Len(tx_queue) : Len(tx_queue[q].users) <= 1)
    /\ [][/\ hist'.preemptions # hist.preemptions =>
                LET U == tx_queue'[Len(tx_queue')].users
                IN /\ Len(U) = 1 /\ U[1].st = hist'.preemption.by
                   /\ U[1].st # hist'.preemption.victim
                   /\ tx_queue[Len(tx_queue)].users[1].st = hist'.preemption.victim
          /\ Len(tx_queue') # Len(tx_queue) =>
                /\ Len(tx_queue') = Len(tx_queue) + 1
                /\ tx_queue'[Len(tx_queue')] = EmptyResource]_vars

\* a preemption has just happened on a tx_queue made after a collision, while
\* tx_lock is held
C33_Witness ==
    /\ hist.preemptions >= 1 /\ Len(tx_queue) >= 2
    /\ tx_lock.users # <<>>
    /\ tx_queue[Len(tx_queue)].users # <<>>
    /\ tx_queue[Len(tx_queue)].users[1].st = hist.preemption.by
    /\ tx_queue[Len(tx_queue)].users[1].time = now

\* C34: whenever a station records a success, that station itself is the single
\* member of active_wifi_transmitters and active_nru_transmitters at that
\* instant, a full air time after it joined: a success is never recorded over
\* another station's entry.
C34_SuccessBySoleMember ==
    [][run'.index = run.index => \A s \in AllStations :
          sta'[s].succeeded # sta[s].succeeded =>
              /\ active_wifi_transmitters \o active_nru_transmitters = <<s>>
              /\ hist'.check.st = s /\ hist'.check.member /\ hist'.check.total = 1
              /\ now' = hist.joined[s] + Duration(Cur, s)
              /\ \A r \in AllStations \ {s} : ~InAirTimeWindow(r)]_vars

\* a station has just recorded a success on a medium that an earlier collision
\* had cleared, while another station waits for tx_lock
C34_Witness ==
    \E s, r \in AllStations :
        /\ s # r /\ hist.check.st = s /\ hist.check.ok /\ hist.check.at = now
        /\ sta[s].succeeded = 1 /\ sta[s].failed >= 1
        /\ Len(tx_queue) >= 2
        /\ proc[r].wbo = "lock"

\* C35: every transmission attempt records exactly one outcome: for each
\* station succeeded + failed is the number of its attempts whose air time has
\* ended, a step records at most one outcome, and only at the end of an air
\* time (lock path or preemption branch); once a station has made its
\* collision check it is not taken back to a second air time of the same
\* attempt.
C35_OneOutcomePerAttempt ==
    /\ [](\A s \in AllStations :
            sta[s].succeeded + sta[s].failed =
                proc[s].gen - (IF proc[s].send \in {"init", "cond", "lock", "air", "pre_air"}
                               THEN 1 ELSE 0))
    /\ [][run'.index = run.index => \A s \in AllStations :
            LET counted == sta[s].succeeded + sta[s].failed
                counted2 == sta'[s].succeeded + sta'[s].failed
            IN /\ counted2 # counted =>
                      /\ counted2 = counted + 1
                      /\ proc[s].send \in {"air", "pre_air"}
                      /\ proc'[s].send \in {"ack", "ackto", "pre_ack", "pre_ackto", "dead"}
                      /\ hist'.checks = hist.checks + 1 /\ hist'.check.st = s
               /\ (proc[s].send \in {"air", "pre_air"} /\ proc'[s].send # proc[s].send) =>
                      counted2 = counted + 1
               /\ proc[s].send \in {"ack", "ackto", "pre_ack", "pre_ackto"} =>
                      proc'[s].send \in {proc[s].send, "dead"}]_vars

\* a station in the ACK wait of its second attempt, after a failure and a
\* success, while another station has been through the preemption branch
C35_Witness ==
    \E s, r \in AllStations :
        /\ s # r /\ proc[s].gen = 2 /\ proc[s].send = "ack"
        /\ sta[s].failed = 1 /\ sta[s].succeeded = 1
        /\ hist.preempted[r] /\ sta[r].failed = 1 /\ proc[r].gen = 1

\* C40: in every reachable state each station appears at most once in its
\* list of active transmitters and at most once in its list of stations in
\* backoff.
C40_NoDuplicateEntries ==
    \A L \in {active_wifi_transmitters, active_nru_transmitters,
              wifi_stations_in_backoff, nru_nodes_in_backoff} :
        \A i, j \in 1..Len(L) : L[i] = L[j] => i = j

\* C37: an interrupt that reaches a station while it is not in its backoff
\* timeout (it waits for tx_lock, or is in the gap wait of gap mode) leaves its
\* remaining backoff unchanged, and sends it back to the head of its defer
\* loop: the budget is reduced only by an interrupt that reaches an armed
\* countdown.
C37_OnlyArmedCountdownReduced ==
    [][\A s \in AllStations :
          /\ (InterruptDelivered(s, "wbo") /\ proc[s].wbo \in {"lock", "gap", "lock2"}) =>
                 /\ sta'[s].back_off_time = sta[s].back_off_time
                 /\ sta'[s].first_interrupt = sta[s].first_interrupt
                 /\ proc'[s].wbo = "lock"
                 /\ run'.status = "running"
          /\ (InterruptDelivered(s, "wbo")
              /\ sta'[s].back_off_time # sta[s].back_off_time) =>
                 /\ proc[s].wbo = "backoff" /\ sta[s].first_interrupt
                 /\ ~sta'[s].first_interrupt]_vars

\* a second interrupt is about to reach a Wi-Fi station that waits for tx_lock
\* with one slot left, its countdown already reduced by the first
C37_Witness ==
    \E s \in WiFiStations(Cur) :
        /\ InterruptDelivered(s, "wbo") /\ proc[s].wbo = "lock"
        /\ ~sta[s].first_interrupt /\ sta[s].back_off_time = t_slot
        /\ Top(Cur).t = now

\* C38: a station's remaining backoff is never negative when a countdown is
\* armed (the armed timeout is DIFS or PP plus a whole number of slots), and
\* the defer loop is left only after a countdown ran to completion without
\* interruption (back_off_time = -1 is set only there, a full armed timeout
\* after `start`; a backoff task that fails at its draw ends before the loop):
\* a station joins the active list only in the instant in which such a
\* countdown completed.
C38_AttemptAfterFullCountdown ==
    /\ [](\A s \in AllStations :
            /\ sta[s].back_off_time >= -1
            /\ proc[s].wbo \in {"lock", "gap", "lock2", "backoff"} =>
                   sta[s].back_off_time >= 0
            /\ proc[s].wbo = "backoff" =>
                   /\ sta[s].back_off_time >= t_difs
                   /\ (sta[s].back_off_time - t_difs) % t_slot = 0
                   /\ \E i \in 1..Len(queue) :
                          /\ queue[i].kind = "timeout" /\ queue[i].st = s
                          /\ queue[i].proc = "wbo"
                          /\ queue[i].t = sta[s].start + sta[s].back_off_time)
    /\ [][run'.index = run.index => \A s \in AllStations :
            /\ (/\ proc[s].wbo # "dead" /\ proc'[s].wbo = "dead"
                \* the backoff task returned: it did not fail at its draw
                /\ \A i \in 1..Len(queue') :
                       (queue'[i].kind = "process" /\ queue'[i].st = s
                        /\ queue'[i].proc = "wbo") => queue'[i].err = "none") =>
                   /\ proc[s].wbo = "backoff"
                   /\ Top(Cur).kind = "timeout" /\ Top(Cur).st = s /\ Top(Cur).att
                   /\ now' = sta[s].start + sta[s].back_off_time
                   /\ sta'[s].back_off_time = -1
            /\ (sta[s].back_off_time # -1 /\ sta'[s].back_off_time = -1) =>
                   proc[s].wbo = "backoff" /\ proc'[s].wbo = "dead"
            /\ hist'.joined[s] # hist.joined[s] =>
                   /\ sta[s].back_off_time = -1 /\ proc[s].wbo = "dead"
                   /\ hist'.joined[s] >= sta[s].start + t_difs
                   /\ (hist'.joined[s] - sta[s].start - t_difs) % t_slot = 0]_vars

\* a station joins the active list after a countdown that was interrupted,
\* re-armed with the remaining slot and then waited in full
C38_Witness ==
    \E s \in AllStations :
        /\ proc[s].send = "cond" /\ hist.joined[s] = now
        /\ sta[s].back_off_time = -1
        /\ now = sta[s].start + t_difs + t_slot
        /\ sta[s].start >= t_difs + WiFiFrameTime /\ sta[s].first_interrupt
        /\ proc[s].gen = 1 /\ ~cfg.gap

\* C39: tx_queue is never leaked: whenever no station is between joining the
\* active list and the end of its attempt, the medium's current tx_queue has
\* no user and no pending request; its user is always a station on the lock
\* path of its current attempt (a request left behind in the preemption branch
\* is never granted on it to a finished task), and a preemption always takes
\* the grant of a station that is still in the attempt it was made for.
C39_QueueNotLeaked ==
    /\ []((\A s \in AllStations : proc[s].send \in {"none", "init", "dead"}) =>
              tx_queue[Len(tx_queue)] = EmptyResource)
    /\ [](\A i \in 1..Len(tx_queue[Len(tx_queue)].users) :
              LET u == tx_queue[Len(tx_queue)].users[i] IN
              /\ u.gen = proc[u.st].gen
              /\ proc[u.st].send \in {"cond", "lock", "air", "ack"})
    /\ [][hist'.preemptions # hist.preemptions =>
              LET v == tx_queue[Len(tx_queue)].users[1] IN
              /\ hist'.preemption.victim = v.st
              /\ v.gen = proc[v.st].gen
              /\ proc[v.st].send = "cond"
              /\ run'.status = "running"]_vars

\* after a collision in which a request was left pending by the preemption
\* branch, every attempt has ended and the current tx_queue is free, while the
\* replaced resource has granted the pending request
C39_Witness ==
    /\ \A s \in AllStations : proc[s].send = "dead"
    /\ Len(tx_queue) = 2 /\ tx_queue[2] = EmptyResource
    /\ tx_queue[1].users # <<>>
    /\ hist.preempted[tx_queue[1].users[1].st]
    /\ cfg.n_wifi + cfg.n_nru >= 2

\* C36: collisions arise only from simultaneous backoff expiry: if an attempt
\* is recorded as a failure, another station joined the active lists at the
\* same virtual instant as that attempt did; and a station never joins the
\* active lists while another station that joined at an earlier instant is
\* inside its air-time window.
C36_CollisionsOnlyFromTies ==
    [][\A s \in AllStations :
          /\ sta'[s].failed # sta[s].failed =>
                 \E r \in AllStations \ {s} : hist.joined[r] = hist.joined[s]
          /\ (proc[s].send = "init" /\ proc'[s].send # "init") =>
                 \A r \in AllStations \ {s} :
                     InAirTimeWindow(r) => hist.joined[r] = hist'.joined[s]]_vars

=============================================================================
